---- MODULE Spec2Model ----
(***************************************************************************)
(* Model of the GEPA optimization core of evaluizer:                       *)
(*   backend/app/services/gepa_progress.py   (Progress Tracker)            *)
(*   backend/app/api/v1/endpoints/gepa.py    (start endpoint, worker pool) *)
(*   backend/app/services/gepa_service.py    (run_gepa, EvalsBackedAdapter)*)
(*   backend/app/utils.py                    (prompt version chain)        *)
(*                                                                         *)
(* Four specifications share the module:                                   *)
(*   Spec        start requests, the executor's workers and run_gepa,      *)
(*               interleaved at every progress-store / database operation  *)
(*   SpecEval    one EvalsBackedAdapter.evaluate call, its per-row and     *)
(*               per-judge tasks completing in any order                   *)
(*   SpecSplit   the train/validation split of run_gepa                    *)
(*   SpecPersist the persisting phase of one run_gepa over prompt stores   *)
(***************************************************************************)
EXTENDS Integers, Sequences, FiniteSets, TLC

VARIABLES
    progress,   \* _progress_store: config_id -> progress dict
    req,        \* position of the start request being handled by the event loop
    resp,       \* last HTTP response of the start endpoint
    starts,     \* number of start requests received so far
    queue,      \* work queue of _executor (one config_id per submitted task)
    wpc,        \* worker thread -> position in _run_gepa_sync / run_gepa
    wcfg,       \* worker thread -> config_id of its task
    wl,         \* worker thread -> locals of run_gepa
    prompts,    \* prompts table: id -> row
    ev,         \* state of one evaluate call (SpecEval)
    sp,         \* state of one train/validation split (SpecSplit)
    pv,         \* state of one persisting phase (SpecPersist)
    sse         \* progress stream -> state of its event_generator (SpecStream)

runVars == <<progress, req, resp, starts, queue, wpc, wcfg, wl, prompts>>
vars == <<progress, req, resp, starts, queue, wpc, wcfg, wl, prompts, ev, sp, pv, sse>>

----------------------------------------------------------------------------
(* Bounds of the model *)

NumConfigs == 1        \* config identifiers 1..NumConfigs
MaxStarts == 3         \* start requests per behaviour
MaxEvals == 1          \* evaluate calls made by one gepa.optimize call
MaxScore == 1          \* scores are 0..MaxScore

(* Program constants *)

MaxWorkers == 2        \* ThreadPoolExecutor(max_workers=2)
max_depth == 100       \* get_root_prompt_id: max_depth
None == -1             \* Python None in an optional numeric field
NoParent == 0          \* parent_prompt_id NULL (falsy)

Configs == 1..NumConfigs
Workers == 1..MaxWorkers
Scores == 0..MaxScore

SetMax(S) == CHOOSE x \in S : \A y \in S : y <= x

----------------------------------------------------------------------------
(* Progress Tracker: gepa_progress.py.  Every operation runs under          *)
(* _progress_lock, so each is one atomic step on the store.  The two        *)
(* timestamps are left out of the records of this part of the model.        *)

DefaultRecord ==
    [status |-> "running", current_iteration |-> 0, max_iterations |-> 0,
     current_score |-> None, best_score |-> None, message |-> <<>>]

update_progress(store, c, kw) ==
    LET base == IF c \in DOMAIN store THEN store[c] ELSE DefaultRecord
        merged == [k \in DOMAIN base \cup DOMAIN kw |->
                      IF k \in DOMAIN kw THEN kw[k] ELSE base[k]]
    IN  [x \in DOMAIN store \cup {c} |-> IF x = c THEN merged ELSE store[x]]

get_progress(store, c) == IF c \in DOMAIN store THEN <<store[c]>> ELSE <<>>

clear_progress(store, c) == [x \in DOMAIN store \ {c} |-> store[x]]

(* set_complete called without new_prompt_id: the default None is stored *)
set_complete_without_id(store, c, final_score, message, new_prompt_id) ==
    update_progress(store, c,
        [status |-> "completed", best_score |-> final_score,
         message |-> message, new_prompt_id |-> None])

set_complete(store, c, final_score, message, new_prompt_id) ==
    update_progress(store, c,
        [status |-> "completed", best_score |-> final_score,
         message |-> message, new_prompt_id |-> new_prompt_id])

(* set_error that records the message and leaves the status as it is *)
set_error_message_only(store, c, error_message) ==
    update_progress(store, c, [message |-> error_message])

set_error(store, c, error_message) ==
    update_progress(store, c, [status |-> "error", message |-> error_message])

(* status of the record of c, "absent" when there is none *)
StatusOf(store, c) == IF c \in DOMAIN store THEN store[c].status ELSE "absent"

----------------------------------------------------------------------------
(* Text: a string is a sequence of characters; str.strip() removes the      *)
(* leading and trailing blanks.                                             *)

RECURSIVE LStrip(_)
LStrip(s) == IF s # <<>> /\ Head(s) = " " THEN LStrip(Tail(s)) ELSE s

RECURSIVE RStrip(_)
RStrip(s) ==
    IF s # <<>> /\ s[Len(s)] = " " THEN RStrip(SubSeq(s, 1, Len(s) - 1)) ELSE s

Strip(s) == RStrip(LStrip(s))

Range(s) == {s[i] : i \in DOMAIN s}

----------------------------------------------------------------------------
(* Prompt version chains: utils.py.  A prompts row is                       *)
(* [parent, version, name, umc, text]; parent = NoParent is NULL.           *)

(* the loop of lines 81-92 ends without another pass: the while condition  *)
(* fails, a circular reference is found, or the fetched parent ends it      *)
ChainEnds(store, ids, cur) ==
    \/ cur = NoParent
    \/ Len(ids) >= max_depth
    \/ cur \in Range(ids)
    \/ cur \notin DOMAIN store
    \/ store[cur].parent = NoParent

ChainResult(store, ids, cur) ==
    IF cur = NoParent \/ Len(ids) >= max_depth
    THEN [circular |-> FALSE, ids |-> ids]
    ELSE IF cur \in Range(ids)
    THEN [circular |-> TRUE, ids |-> ids]
    ELSE [circular |-> FALSE, ids |-> Append(ids, cur)]

RECURSIVE BuildChain(_, _, _)
BuildChain(store, ids, cur) ==
    IF ChainEnds(store, ids, cur) THEN ChainResult(store, ids, cur)
    ELSE BuildChain(store, Append(ids, cur), store[cur].parent)

(* the loop of lines 102-110 returns current_id *)
TraverseEnds(store, prompt_map, current_id, visited) ==
    \/ current_id \notin prompt_map
    \/ current_id \in visited
    \/ store[current_id].parent = NoParent

RECURSIVE TraverseMap(_, _, _, _)
TraverseMap(store, prompt_map, current_id, visited) ==
    IF TraverseEnds(store, prompt_map, current_id, visited) THEN current_id
    ELSE TraverseMap(store, prompt_map, store[current_id].parent,
                     visited \cup {current_id})

get_root_prompt_id_base(store, prompt_id) == prompt_id

get_root_prompt_id(store, prompt_id) ==
    IF prompt_id \notin DOMAIN store THEN prompt_id
    ELSE IF store[prompt_id].parent = NoParent THEN prompt_id
    ELSE LET chain == BuildChain(store, <<prompt_id>>, store[prompt_id].parent)
         IN  IF chain.circular THEN chain.ids[1]
             ELSE TraverseMap(store, Range(chain.ids) \cap DOMAIN store,
                              prompt_id, {})

get_next_prompt_version(store, root_prompt_id) ==
    LET vs == {store[p].version :
                 p \in {q \in DOMAIN store :
                          store[q].parent = root_prompt_id \/ q = root_prompt_id}}
    IN  (IF vs = {} THEN 0 ELSE SetMax(vs)) + 1

(* db.add + commit + refresh of the new Prompt: the table assigns the id *)
NewPromptId(store) == IF DOMAIN store = {} THEN 1 ELSE SetMax(DOMAIN store) + 1

InsertPrompt(store, row) ==
    [p \in DOMAIN store \cup {NewPromptId(store)} |->
        IF p \in DOMAIN store THEN store[p] ELSE row]

(* the row numbered again from the table at the time of the write *)
NewVersionRow_renumbered(store, root_prompt_id, version, best_prompt, user_message_column) ==
    [parent |-> root_prompt_id,
     version |-> get_next_prompt_version(store, root_prompt_id),
     name |-> store[root_prompt_id].name, umc |-> user_message_column,
     text |-> Strip(best_prompt)]

(* The Prompt(...) built by run_gepa, lines 486-496 *)
NewVersionRow(store, root_prompt_id, version, best_prompt, user_message_column) ==
    [parent |-> root_prompt_id, version |-> version,
     name |-> store[root_prompt_id].name, umc |-> user_message_column,
     text |-> Strip(best_prompt)]

----------------------------------------------------------------------------
(* The result object of gepa.optimize and what run_gepa extracts from it,   *)
(* lines 436-452.  A candidate is [present, text]; present = FALSE is a     *)
(* None (or empty) candidate.                                               *)

NoCandidate == [present |-> FALSE, text |-> <<>>]
Candidate(t) == [present |-> TRUE, text |-> t]

ExtractBestPrompt(result) ==
    LET fromBest == IF result.best_candidate.present
                    THEN result.best_candidate.text ELSE <<>>
    IN  IF fromBest = <<>> /\ result.candidate.present
        THEN result.candidate.text
        ELSE fromBest

(* lines 447-452 without the strip of line 451 *)
ValidBestPrompt_nonempty(best_prompt) == best_prompt # <<>>

ValidBestPrompt(best_prompt) == best_prompt # <<>> /\ Strip(best_prompt) # <<>>

----------------------------------------------------------------------------
(* Spec: the start endpoint, the executor and run_gepa.                      *)

(* gepa_config.base_prompt_id and gepa_config.max_metric_calls *)
BasePromptOf(c) == IF c = 1 THEN 2 ELSE 1
max_metric_calls(c) == MaxEvals

(* prompts table at start: a root (id 1) and one later version of it (id 2) *)
InitialPrompts ==
    (1 :> [parent |-> NoParent, version |-> 1, name |-> "A", umc |-> "",
           text |-> <<"s">>])
    @@ (2 :> [parent |-> 1, version |-> 2, name |-> "A", umc |-> "q",
              text |-> <<"t">>])

ValidationErrors ==
    {"csv_not_found", "base_prompt_not_found", "base_prompt_empty",
     "no_scorers", "no_rows"}

(* results the search returns in Spec *)
RunResults ==
    {[best_candidate |-> Candidate(<<"p">>), candidate |-> Candidate(<<"p">>)],
     [best_candidate |-> NoCandidate, candidate |-> Candidate(<<"p">>)],
     [best_candidate |-> Candidate(<<>>), candidate |-> Candidate(<<"p">>)],
     [best_candidate |-> NoCandidate, candidate |-> NoCandidate]}

(* results whose texts carry whitespace: text with a leading blank, a     *)
(* blank best candidate next to a usable current one, a blank current one *)
BlankResults ==
    {[best_candidate |-> Candidate(<<" ", "p">>), candidate |-> NoCandidate],
     [best_candidate |-> Candidate(<<" ">>), candidate |-> Candidate(<<"p">>)],
     [best_candidate |-> NoCandidate, candidate |-> Candidate(<<" ">>)]}

(* what gepa.optimize can return in a run of config c: the runs of config *)
(* 1 draw from RunResults, the runs of any other config also from         *)
(* BlankResults                                                            *)
SearchResults(c) == IF c = 1 THEN RunResults ELSE RunResults \cup BlankResults

LocalsInit ==
    [evaluation_count |-> 0, optimize_called |-> FALSE, err |-> "",
     result_best |-> NoCandidate, result_candidate |-> NoCandidate,
     best_prompt |-> <<>>, best_score |-> None, root_prompt_id |-> 0,
     version |-> 0, new_prompt_id |-> 0]

ReqIdle == [pc |-> "idle", cfg |-> 0]
NoResponse == [cfg |-> 0, code |-> 0]

EvIdle == [phase |-> "unused"]
SpIdle == [phase |-> "unused"]
PvIdle == [phase |-> "unused"]
SseIdle == <<>>

Init ==
    /\ progress = <<>>
    /\ req = ReqIdle
    /\ resp = NoResponse
    /\ starts = 0
    /\ queue = <<>>
    /\ wpc = [w \in Workers |-> "idle"]
    /\ wcfg = [w \in Workers |-> 0]
    /\ wl = [w \in Workers |-> LocalsInit]
    /\ prompts = InitialPrompts
    /\ ev = EvIdle
    /\ sp = SpIdle
    /\ pv = PvIdle
    /\ sse = SseIdle

(* ---- run_gepa_optimization_endpoint, gepa.py 270-312 ---- *)

(* the "already running" test of line 280 *)
AlreadyRunning(store, c) ==
    /\ get_progress(store, c) # <<>>
    /\ get_progress(store, c)[1].status = "running"

StartCheck(c) ==
    /\ req.pc = "idle"
    /\ starts < MaxStarts
    /\ starts' = starts + 1
    /\ IF AlreadyRunning(progress, c)
       THEN /\ resp' = [cfg |-> c, code |-> 400]
            /\ req' = req
       ELSE /\ req' = [pc |-> "clear", cfg |-> c]
            /\ resp' = NoResponse
    /\ UNCHANGED <<progress, queue, wpc, wcfg, wl, prompts, ev, sp, pv>>

StartClear ==
    /\ req.pc = "clear"
    /\ progress' = clear_progress(progress, req.cfg)
    /\ req' = [req EXCEPT !.pc = "init"]
    /\ UNCHANGED <<resp, starts, queue, wpc, wcfg, wl, prompts, ev, sp, pv>>

StartInit ==
    /\ req.pc = "init"
    /\ progress' = update_progress(progress, req.cfg,
           [status |-> "running", current_iteration |-> 0,
            max_iterations |-> max_metric_calls(req.cfg),
            message |-> <<"Initializing optimization...">>])
    /\ req' = [req EXCEPT !.pc = "schedule"]
    /\ UNCHANGED <<resp, starts, queue, wpc, wcfg, wl, prompts, ev, sp, pv>>

StartSchedule ==
    /\ req.pc = "schedule"
    /\ queue' = Append(queue, req.cfg)
    /\ resp' = [cfg |-> req.cfg, code |-> 200]
    /\ req' = ReqIdle
    /\ UNCHANGED <<progress, starts, wpc, wcfg, wl, prompts, ev, sp, pv>>

(* ---- _run_gepa_sync, gepa.py 221-267 ---- *)

Goto(w, pc) == wpc' = [wpc EXCEPT ![w] = pc]

(* an exception leaves run_gepa without passing through its except clause *)
RaiseToCaller(w, e) ==
    /\ Goto(w, "sync_except")
    /\ wl' = [wl EXCEPT ![w].err = e]

(* an exception inside the try block of run_gepa, lines 418-471 *)
RaiseInTry(w, e) ==
    /\ Goto(w, "rg_set_error")
    /\ wl' = [wl EXCEPT ![w].err = e]

(* a worker thread takes the next task of the executor's queue *)
WorkerPick(w) ==
    /\ wpc[w] = "idle"
    /\ queue # <<>>
    /\ wcfg' = [wcfg EXCEPT ![w] = Head(queue)]
    /\ queue' = Tail(queue)
    /\ wl' = [wl EXCEPT ![w] = LocalsInit]
    /\ Goto(w, "sync_load")
    /\ UNCHANGED <<progress, req, resp, starts, prompts, ev, sp, pv>>

(* lines 254-258: the config is read in the thread's own session *)
SyncLoadConfig(w) ==
    /\ wpc[w] = "sync_load"
    /\ \E found \in BOOLEAN :
          IF found
          THEN /\ Goto(w, "rg_clear")
               /\ UNCHANGED progress
          ELSE /\ progress' = set_error(progress, wcfg[w], <<"GEPA config not found">>)
               /\ Goto(w, "idle")
    /\ UNCHANGED <<req, resp, starts, queue, wcfg, wl, prompts, ev, sp, pv>>

(* lines 263-267 with an except clause that records nothing *)
SyncExcept_silent(w) ==
    /\ wpc[w] = "sync_except"
    /\ Goto(w, "idle")
    /\ UNCHANGED <<progress, req, resp, starts, queue, wcfg, wl, prompts, ev, sp, pv>>

(* the handler of lines 263-265 clearing the record instead *)
SyncExcept_clearing(w) ==
    /\ wpc[w] = "sync_except"
    /\ progress' = clear_progress(progress, wcfg[w])
    /\ Goto(w, "idle")
    /\ UNCHANGED <<req, resp, starts, queue, wcfg, wl, prompts, ev, sp, pv>>

(* lines 263-265: except Exception -> set_error; finally close *)
SyncExcept(w) ==
    /\ wpc[w] = "sync_except"
    /\ progress' = set_error(progress, wcfg[w], <<"Optimization failed", wl[w].err>>)
    /\ Goto(w, "idle")
    /\ UNCHANGED <<req, resp, starts, queue, wcfg, wl, prompts, ev, sp, pv>>

(* ---- run_gepa, gepa_service.py 301-528 ---- *)

(* line 320 *)
RgClear(w) ==
    /\ wpc[w] = "rg_clear"
    /\ progress' = clear_progress(progress, wcfg[w])
    /\ Goto(w, "rg_init")
    /\ UNCHANGED <<req, resp, starts, queue, wcfg, wl, prompts, ev, sp, pv>>

(* lines 321-327 *)
RgInit(w) ==
    /\ wpc[w] = "rg_init"
    /\ progress' = update_progress(progress, wcfg[w],
           [status |-> "running", current_iteration |-> 0,
            max_iterations |-> max_metric_calls(wcfg[w]),
            message |-> <<"Starting GEPA optimization...">>])
    /\ Goto(w, "rg_validate")
    /\ UNCHANGED <<req, resp, starts, queue, wcfg, wl, prompts, ev, sp, pv>>

(* lines 329-371: the loads and checks of the validating phase; each raise *)
(* is outside the try block                                                *)
RgValidate(w) ==
    /\ wpc[w] = "rg_validate"
    /\ \E outcome \in ValidationErrors \cup {"ok"} :
          IF outcome = "ok"
          THEN Goto(w, "rg_opt_msg") /\ UNCHANGED wl
          ELSE RaiseToCaller(w, outcome)
    /\ UNCHANGED <<progress, req, resp, starts, queue, wcfg, prompts, ev, sp, pv>>

(* lines 419-424: the progress message, then gepa.optimize is called *)
RgOptMsg(w) ==
    /\ wpc[w] = "rg_opt_msg"
    /\ progress' = update_progress(progress, wcfg[w],
           [message |-> <<"Running optimization...">>])
    /\ wl' = [wl EXCEPT ![w].optimize_called = TRUE]
    /\ Goto(w, "rg_optimize")
    /\ UNCHANGED <<req, resp, starts, queue, wcfg, prompts, ev, sp, pv>>

(* gepa.optimize calls adapter.evaluate: lines 228-233 *)
RgEvalBegin(w) ==
    /\ wpc[w] = "rg_optimize"
    /\ wl[w].evaluation_count < max_metric_calls(wcfg[w])
    /\ wl' = [wl EXCEPT ![w].evaluation_count = @ + 1]
    /\ progress' = update_progress(progress, wcfg[w],
           [message |-> <<"Evaluating candidate...">>,
            current_iteration |-> wl[w].evaluation_count + 1])
    /\ Goto(w, "rg_eval_end")
    /\ UNCHANGED <<req, resp, starts, queue, wcfg, prompts, ev, sp, pv>>

(* lines 261-278: the batch's mean score is reported *)
RgEvalEnd(w) ==
    /\ wpc[w] = "rg_eval_end"
    /\ \E avg_score \in Scores :
          progress' = update_progress(progress, wcfg[w],
              [current_score |-> avg_score,
               message |-> <<"Completed evaluation">>])
    /\ Goto(w, "rg_optimize")
    /\ UNCHANGED <<req, resp, starts, queue, wcfg, wl, prompts, ev, sp, pv>>

(* gepa.optimize raises *)
RgOptimizeRaise(w) ==
    /\ wpc[w] = "rg_optimize"
    /\ RaiseInTry(w, "search_error")
    /\ UNCHANGED <<progress, req, resp, starts, queue, wcfg, prompts, ev, sp, pv>>

(* gepa.optimize returns; lines 436-452 *)
RgOptimizeReturn(w) ==
    /\ wpc[w] = "rg_optimize"
    /\ \E result \in SearchResults(wcfg[w]) :
          LET best_prompt == ExtractBestPrompt(result)
          IN  IF ValidBestPrompt(best_prompt)
              THEN /\ Goto(w, "rg_final_msg")
                   /\ wl' = [wl EXCEPT ![w].best_prompt = best_prompt,
                                       ![w].result_best = result.best_candidate,
                                       ![w].result_candidate = result.candidate]
              ELSE /\ Goto(w, "rg_set_error")
                   /\ wl' = [wl EXCEPT ![w].err = "no_valid_prompt",
                                       ![w].result_best = result.best_candidate,
                                       ![w].result_candidate = result.candidate]
    /\ UNCHANGED <<progress, req, resp, starts, queue, wcfg, prompts, ev, sp, pv>>

(* lines 454-457, with the final evaluate of lines 459-467 left out *)
RgFinalMsg_skip_scoring(w) ==
    /\ wpc[w] = "rg_final_msg"
    /\ progress' = update_progress(progress, wcfg[w],
           [message |-> <<"Calculating final validation score...">>])
    /\ Goto(w, "rg_root")
    /\ UNCHANGED <<req, resp, starts, queue, wcfg, wl, prompts, ev, sp, pv>>

(* lines 454-457 *)
RgFinalMsg(w) ==
    /\ wpc[w] = "rg_final_msg"
    /\ progress' = update_progress(progress, wcfg[w],
           [message |-> <<"Calculating final validation score...">>])
    /\ Goto(w, "rg_final_eval")
    /\ UNCHANGED <<req, resp, starts, queue, wcfg, wl, prompts, ev, sp, pv>>

(* line 460: adapter.evaluate(valset, result.best_candidate); line 225      *)
(* subscripts the candidate before any progress update                      *)
RgFinalEvalBegin(w) ==
    /\ wpc[w] = "rg_final_eval"
    /\ IF wl[w].result_best.present
       THEN /\ wl' = [wl EXCEPT ![w].evaluation_count = @ + 1]
            /\ progress' = update_progress(progress, wcfg[w],
                   [message |-> <<"Evaluating candidate...">>,
                    current_iteration |-> wl[w].evaluation_count + 1])
            /\ Goto(w, "rg_final_eval_end")
       ELSE /\ RaiseInTry(w, "candidate_not_subscriptable")
            /\ UNCHANGED progress
    /\ UNCHANGED <<req, resp, starts, queue, wcfg, prompts, ev, sp, pv>>

(* lines 261-278 and 461 *)
RgFinalEvalEnd(w) ==
    /\ wpc[w] = "rg_final_eval_end"
    /\ \E avg_score \in Scores :
          /\ progress' = update_progress(progress, wcfg[w],
                 [current_score |-> avg_score,
                  message |-> <<"Completed evaluation">>])
          /\ wl' = [wl EXCEPT ![w].best_score = avg_score]
    /\ Goto(w, "rg_best_score")
    /\ UNCHANGED <<req, resp, starts, queue, wcfg, prompts, ev, sp, pv>>

(* lines 463-467 *)
RgBestScore(w) ==
    /\ wpc[w] = "rg_best_score"
    /\ progress' = update_progress(progress, wcfg[w],
           [best_score |-> wl[w].best_score,
            message |-> <<"Final validation score">>])
    /\ Goto(w, "rg_root")
    /\ UNCHANGED <<req, resp, starts, queue, wcfg, wl, prompts, ev, sp, pv>>

(* lines 469-471: except Exception -> set_error; raise *)
RgSetError(w) ==
    /\ wpc[w] = "rg_set_error"
    /\ progress' = set_error(progress, wcfg[w], <<"Optimization failed", wl[w].err>>)
    /\ Goto(w, "sync_except")
    /\ UNCHANGED <<req, resp, starts, queue, wcfg, wl, prompts, ev, sp, pv>>

(* lines 474-479 *)
RgRoot(w) ==
    /\ wpc[w] = "rg_root"
    /\ LET root == get_root_prompt_id(prompts, BasePromptOf(wcfg[w]))
       IN  IF root \in DOMAIN prompts
           THEN /\ wl' = [wl EXCEPT ![w].root_prompt_id = root]
                /\ Goto(w, "rg_version")
           ELSE RaiseToCaller(w, "root_not_found")
    /\ UNCHANGED <<progress, req, resp, starts, queue, wcfg, prompts, ev, sp, pv>>

(* line 481 *)
RgVersion(w) ==
    /\ wpc[w] = "rg_version"
    /\ wl' = [wl EXCEPT ![w].version =
                 get_next_prompt_version(prompts, wl[w].root_prompt_id)]
    /\ Goto(w, "rg_insert")
    /\ UNCHANGED <<progress, req, resp, starts, queue, wcfg, prompts, ev, sp, pv>>

(* lines 486-504: the write either commits or fails and is rolled back *)
RgInsert(w) ==
    /\ wpc[w] = "rg_insert"
    /\ \E committed \in BOOLEAN :
          IF committed
          THEN /\ prompts' = InsertPrompt(prompts,
                     NewVersionRow(prompts, wl[w].root_prompt_id, wl[w].version,
                                   wl[w].best_prompt,
                                   prompts[BasePromptOf(wcfg[w])].umc))
               /\ wl' = [wl EXCEPT ![w].new_prompt_id = NewPromptId(prompts)]
               /\ Goto(w, "rg_verify")
          ELSE /\ RaiseToCaller(w, "save_failed")
               /\ UNCHANGED prompts
    /\ UNCHANGED <<progress, req, resp, starts, queue, wcfg, ev, sp, pv>>

(* lines 506-513: the read-back and the comparison of the content *)
RgVerify(w) ==
    /\ wpc[w] = "rg_verify"
    /\ \E readback \in {"same", "none", "different"} :
          IF readback = "same"
          THEN Goto(w, "rg_complete") /\ UNCHANGED wl
          ELSE RaiseToCaller(w, IF readback = "none" THEN "retrieve_failed"
                                ELSE "content_mismatch")
    /\ UNCHANGED <<progress, req, resp, starts, queue, wcfg, prompts, ev, sp, pv>>

(* lines 516-528 *)
RgComplete(w) ==
    /\ wpc[w] = "rg_complete"
    /\ progress' = set_complete(progress, wcfg[w], wl[w].best_score,
                                <<"Optimization completed">>, wl[w].new_prompt_id)
    /\ Goto(w, "idle")
    /\ UNCHANGED <<req, resp, starts, queue, wcfg, wl, prompts, ev, sp, pv>>

Next ==
    \/ \E c \in Configs : StartCheck(c) /\ UNCHANGED sse
    \/ StartClear /\ UNCHANGED sse
    \/ StartInit /\ UNCHANGED sse
    \/ StartSchedule /\ UNCHANGED sse
    \/ \E w \in Workers : WorkerPick(w) /\ UNCHANGED sse
    \/ \E w \in Workers : SyncLoadConfig(w) /\ UNCHANGED sse
    \/ \E w \in Workers : SyncExcept(w) /\ UNCHANGED sse
    \/ \E w \in Workers : RgClear(w) /\ UNCHANGED sse
    \/ \E w \in Workers : RgInit(w) /\ UNCHANGED sse
    \/ \E w \in Workers : RgValidate(w) /\ UNCHANGED sse
    \/ \E w \in Workers : RgOptMsg(w) /\ UNCHANGED sse
    \/ \E w \in Workers : RgEvalBegin(w) /\ UNCHANGED sse
    \/ \E w \in Workers : RgEvalEnd(w) /\ UNCHANGED sse
    \/ \E w \in Workers : RgOptimizeRaise(w) /\ UNCHANGED sse
    \/ \E w \in Workers : RgOptimizeReturn(w) /\ UNCHANGED sse
    \/ \E w \in Workers : RgFinalMsg(w) /\ UNCHANGED sse
    \/ \E w \in Workers : RgFinalEvalBegin(w) /\ UNCHANGED sse
    \/ \E w \in Workers : RgFinalEvalEnd(w) /\ UNCHANGED sse
    \/ \E w \in Workers : RgBestScore(w) /\ UNCHANGED sse
    \/ \E w \in Workers : RgSetError(w) /\ UNCHANGED sse
    \/ \E w \in Workers : RgRoot(w) /\ UNCHANGED sse
    \/ \E w \in Workers : RgVersion(w) /\ UNCHANGED sse
    \/ \E w \in Workers : RgInsert(w) /\ UNCHANGED sse
    \/ \E w \in Workers : RgVerify(w) /\ UNCHANGED sse
    \/ \E w \in Workers : RgComplete(w) /\ UNCHANGED sse

Spec == Init /\ [][Next]_vars

----------------------------------------------------------------------------
(* SpecEval: one call of EvalsBackedAdapter.evaluate, gepa_service.py       *)
(* 86-278.  asyncio.gather runs one _evaluate_single_item task per row and, *)
(* inside a row, one evaluate_judge task per judge; tasks complete in any   *)
(* order.  Scores are exact rationals [num, den].                           *)

MaxRows == 2           \* rows of a batch
MaxJudges == 2         \* judge configs of the adapter
MaxFuncs == 2          \* function eval configs of the adapter
MaxScorers == 2        \* judge and function eval configs together

Rat(n, d) == [num |-> n, den |-> d]
Zero == Rat(0, 1)
RatEq(a, b) == a.num * b.den = b.num * a.den
RatAdd(a, b) == Rat(a.num * b.den + b.num * a.den, a.den * b.den)

RECURSIVE SumSeq(_)
SumSeq(s) == IF s = <<>> THEN 0 ELSE Head(s) + SumSeq(Tail(s))

RECURSIVE RatSum(_)
RatSum(s) == IF s = <<>> THEN Zero ELSE RatAdd(Head(s), RatSum(Tail(s)))

RECURSIVE Flatten(_)
Flatten(ss) == IF ss = <<>> THEN <<>> ELSE Head(ss) \o Flatten(Tail(ss))

(* sum(xs) / len(xs) if xs else 0.0 *)
MeanOrZero(xs) == IF xs = <<>> THEN Zero ELSE Rat(SumSeq(xs), Len(xs))

Ok(v) == [ok |-> TRUE, val |-> v, err |-> ""]
Raise(e) == [ok |-> FALSE, val |-> <<>>, err |-> e]

(* csv_file.columns of the dataset, and the registered scoring plugins *)
available_columns == {"q"}
RegisteredPlugins == {"exact_match", "output_length"}

Lit(ch) == [kind |-> "lit", s |-> ch]
Var(col) == [kind |-> "var", s |-> col]

(* a cell that the uploaded CSV row was too short to fill: csv.DictReader   *)
(* gives None, stored as JSON null (endpoints/csv.py 59-64)                *)
JsonNull == <<"null">>

(* Python's str() on a cell value *)
str(value) == IF value = JsonNull THEN <<"N", "o", "n", "e">> ELSE value

(* str(row_data.get(col, "")) *)
RowGet(row_data, col) ==
    IF col \in DOMAIN row_data THEN str(row_data[col]) ELSE <<>>

(* render_prompt without the check of lines 82-88: an unknown column is *)
(* rendered as the empty string                                          *)
render_prompt_lenient(prompt_template, row_data, columns) ==
    Ok(Flatten([k \in DOMAIN prompt_template |->
          IF prompt_template[k].kind = "lit"
          THEN <<prompt_template[k].s>>
          ELSE RowGet(row_data, prompt_template[k].s)]))

(* llm_service.render_prompt, llm_service.py 64-100 *)
render_prompt(prompt_template, row_data, columns) ==
    LET names == {prompt_template[k].s :
                    k \in {x \in DOMAIN prompt_template :
                             prompt_template[x].kind = "var"}}
    IN  IF names \ columns # {}
        THEN Raise("columns_dont_exist")
        ELSE Ok(Flatten([k \in DOMAIN prompt_template |->
                 IF prompt_template[k].kind = "lit"
                 THEN <<prompt_template[k].s>>
                 ELSE RowGet(row_data, prompt_template[k].s)]))

(* what _generate_output does before it calls the LLM, lines 88-101 *)
PrepareGeneration(system_prompt, row_data, user_message_column) ==
    LET rendered == render_prompt(system_prompt, row_data, available_columns)
    IN  IF ~rendered.ok THEN rendered
        ELSE IF rendered.val = <<>> \/ Strip(rendered.val) = <<>>
        THEN Raise("rendered_prompt_empty")
        ELSE IF user_message_column = "" THEN Ok(<<>>)
        ELSE IF user_message_column \notin available_columns
        THEN Raise("user_message_column_not_found")
        ELSE IF Strip(RowGet(row_data, user_message_column)) = <<>>
        THEN Raise("user_message_empty")
        ELSE Ok(RowGet(row_data, user_message_column))

(* _generate_output, lines 86-117; response is what chat_completion did *)
generate_output(system_prompt, row_data, user_message_column, response) ==
    LET prepared == PrepareGeneration(system_prompt, row_data, user_message_column)
    IN  IF ~prepared.ok THEN prepared
        ELSE IF response.kind = "raise" THEN Raise("llm_call_failed")
        ELSE IF response.text = <<>> THEN Raise("llm_returned_empty")
        ELSE Ok(Strip(response.text))

Fragment(name, failed, score, error) ==
    [name |-> name, failed |-> failed, score |-> score, error |-> error]

NoTrajectory == [present |-> FALSE]

ItemResult(output, score, trajectory, feedback, all_scores) ==
    [done |-> TRUE, output |-> output, score |-> score,
     trajectory |-> trajectory, feedback |-> feedback, all_scores |-> all_scores]

(* step 1 of _evaluate_single_item failed, lines 130-137 *)
GenerationFailedResult(reason) ==
    ItemResult(<<>>, Zero, NoTrajectory,
               <<Fragment("generation", TRUE, 0, reason)>>, <<>>)

(* evaluate_judge, lines 145-158: [key, score, feedback] *)
evaluate_judge(judge_name, outcome) ==
    IF outcome.kind = "score"
    THEN [key |-> <<"judge", judge_name>>, score |-> outcome.score,
          feedback |-> Fragment(judge_name, FALSE, outcome.score, "")]
    ELSE [key |-> <<"judge", judge_name>>, score |-> 0,
          feedback |-> Fragment(judge_name, TRUE, 0, outcome.err)]

(* the loop of lines 170-190 naming the scorer by its function_name *)
evaluate_function_by_function_name(cfg, outcome) ==
    IF outcome.kind = "score"
    THEN [key |-> <<"function", cfg.function_name>>, score |-> outcome.score,
          feedback |-> Fragment(cfg.function_name, FALSE, outcome.score, "")]
    ELSE [key |-> <<"function", cfg.function_name>>, score |-> 0,
          feedback |-> Fragment(cfg.function_name, TRUE, 0, outcome.err)]

(* one pass of the loop of lines 170-190 *)
evaluate_function(cfg, outcome) ==
    IF outcome.kind = "score"
    THEN [key |-> <<"function", cfg.name>>, score |-> outcome.score,
          feedback |-> Fragment(cfg.name, FALSE, outcome.score, "")]
    ELSE [key |-> <<"function", cfg.name>>, score |-> 0,
          feedback |-> Fragment(cfg.name, TRUE, 0, outcome.err)]

(* asyncio.gather: the results in the order of the tasks, whatever order *)
(* they completed in                                                     *)
gather_completion_order(results, completion_order) ==
    [k \in DOMAIN completion_order |-> results[completion_order[k]]]

gather(results, completion_order) == [k \in DOMAIN results |-> results[k]]

(* grader_scores[key] = score for each grader in turn: a dict *)
GraderScores(graded) ==
    [key \in {graded[k].key : k \in DOMAIN graded} |->
        graded[SetMax({k \in DOMAIN graded : graded[k].key = key})].score]

(* lines 192-193 with the mean taken over the by-grader dict instead *)
CombinedScore_by_grader(graded) ==
    LET keys == {graded[k].key : k \in DOMAIN graded}
        last == {SetMax({k \in DOMAIN graded : graded[k].key = key}) : key \in keys}
    IN  IF graded = <<>> THEN Zero
        ELSE Rat(SumSeq([k \in 1..Len(graded) |->
                           IF k \in last THEN graded[k].score ELSE 0]),
                 Cardinality(keys))

(* lines 192-193: scalar = sum(all_scores) / len(all_scores) *)
CombinedScore(graded) == MeanOrZero([k \in DOMAIN graded |-> graded[k].score])

(* steps 2 and 3 of _evaluate_single_item, lines 139-206 *)
GradeItem(item, summary, judges, judge_outcomes, judge_order, funcs, func_outcomes, capture_traces) ==
    LET judge_results ==
            gather([j \in DOMAIN judges |-> evaluate_judge(judges[j], judge_outcomes[j])],
                   judge_order)
        func_results ==
            [f \in DOMAIN funcs |-> evaluate_function(funcs[f], func_outcomes[f])]
        graded == judge_results \o func_results
        all_scores == [k \in DOMAIN graded |-> graded[k].score]
        feedback_parts == [k \in DOMAIN graded |-> graded[k].feedback]
        scalar == CombinedScore(graded)
        feedback == IF feedback_parts = <<>>
                    THEN <<Fragment("all graders passed", FALSE, 0, "")>>
                    ELSE feedback_parts
        trajectory ==
            IF capture_traces
            THEN [present |-> TRUE, inputs |-> item, generated_output |-> summary,
                  combined |-> scalar, by_grader |-> GraderScores(graded),
                  feedback |-> feedback]
            ELSE NoTrajectory
    IN  ItemResult(summary, scalar, trajectory, feedback, all_scores)

(* lines 245-258: the loop that unpacks the gathered results *)
RECURSIVE KeptTrajectories(_, _)
KeptTrajectories(results, capture_traces) ==
    IF results = <<>> THEN <<>>
    ELSE (IF capture_traces /\ Head(results).trajectory.present
          THEN <<Head(results).trajectory>> ELSE <<>>)
         \o KeptTrajectories(Tail(results), capture_traces)

EvaluationBatch(results, capture_traces) ==
    [scores |-> [k \in DOMAIN results |-> results[k].score],
     outputs |-> [k \in DOMAIN results |-> results[k].output],
     trajectories |-> KeptTrajectories(results, capture_traces)]

(* ---- inputs of the evaluate call ---- *)

QValues == {<<>>, <<"a">>, JsonNull}     \* values of column q in a row

Batches ==
    UNION {{[k \in 1..n |-> [row_data |-> [q |-> qs[k]], csv_row_id |-> k]] :
              qs \in [1..n -> QValues]} : n \in 0..MaxRows}

(* the candidate passed to evaluate and the base prompt's user_message_column *)
EvalSetups ==
    {<<NoCandidate, "">>,
     <<Candidate(<<Lit("x"), Var("q")>>), "">>,
     <<Candidate(<<Var("q")>>), "">>,
     <<Candidate(<<Lit("x"), Var("z")>>), "">>,
     <<Candidate(<<Lit("x"), Var("q")>>), "q">>,
     <<Candidate(<<Lit("x"), Var("q")>>), "z">>}

JudgeLists ==
    {s \in UNION {[1..n -> {"a", "b"}] : n \in 0..MaxJudges} :
        Len(s) > 0 => s[1] = "a"}

FuncConfigs ==
    {[name |-> "a", function_name |-> "exact_match"],
     [name |-> "a", function_name |-> "no_such_plugin"]}

FuncLists == UNION {[1..n -> FuncConfigs] : n \in 0..MaxFuncs}

(* what a chat_completion call does *)
NotCalled == [kind |-> "notcalled", text |-> <<>>]
LLMResponses ==
    {[kind |-> "raise", text |-> <<>>]}
    \cup {[kind |-> "text", text |-> t] :
            t \in {<<>>, <<" ">>, <<" ", "o">>, <<"u">>}}

(* what a scorer call does *)
Pending == [kind |-> "pending", score |-> 0, err |-> ""]
Scored(s) == [kind |-> "score", score |-> s, err |-> ""]
Failed(e) == [kind |-> "raise", score |-> 0, err |-> e]
JudgeOutcomes == {Failed("judge_error")} \cup {Scored(s) : s \in Scores}

(* run_function_evaluation, function_eval_service.py 67-113 *)
FunctionOutcomes(cfg) ==
    IF cfg.function_name \notin RegisteredPlugins
    THEN {Failed("plugin_not_found")}
    ELSE {Failed("plugin_error")} \cup {Scored(s) : s \in Scores}

FunctionOutcomeSeqs(funcs) ==
    {fo \in [DOMAIN funcs -> {Failed("plugin_not_found"), Failed("plugin_error")}
                              \cup {Scored(s) : s \in Scores}] :
        \A f \in DOMAIN funcs : fo[f] \in FunctionOutcomes(funcs[f])}

EvalStart(inputs, candidate, capture_traces, umc, judges, funcs) ==
    [phase |-> "init", inputs |-> inputs, candidate |-> candidate,
     capture_traces |-> capture_traces, user_message_column |-> umc,
     judge_configs |-> judges, function_eval_configs |-> funcs,
     evaluation_count |-> 0,
     gen |-> [k \in DOMAIN inputs |-> "pending"],
     llm |-> [k \in DOMAIN inputs |-> NotCalled],
     summary |-> [k \in DOMAIN inputs |-> <<>>],
     jout |-> [k \in DOMAIN inputs |-> [j \in DOMAIN judges |-> Pending]],
     jorder |-> [k \in DOMAIN inputs |-> <<>>],
     fout |-> [k \in DOMAIN inputs |-> <<>>],
     res |-> [k \in DOMAIN inputs |-> [done |-> FALSE]],
     order |-> <<>>,
     batch |-> [scores |-> <<>>, outputs |-> <<>>, trajectories |-> <<>>]]

EvalConfig == 1

InitEval ==
    /\ progress = update_progress(<<>>, EvalConfig,
           [status |-> "running", message |-> <<"Running optimization...">>])
    /\ req = ReqIdle
    /\ resp = NoResponse
    /\ starts = 0
    /\ queue = <<>>
    /\ wpc = [w \in Workers |-> "idle"]
    /\ wcfg = [w \in Workers |-> 0]
    /\ wl = [w \in Workers |-> LocalsInit]
    /\ prompts = InitialPrompts
    /\ \E inputs \in Batches, setup \in EvalSetups, capture_traces \in BOOLEAN,
          judges \in JudgeLists, funcs \in FuncLists :
          /\ Len(judges) + Len(funcs) <= MaxScorers
          /\ ev = EvalStart(inputs, setup[1], capture_traces, setup[2],
                            judges, funcs)
    /\ sp = SpIdle
    /\ pv = PvIdle
    /\ sse = SseIdle

evalFrame == <<req, resp, starts, queue, wpc, wcfg, wl, prompts, sp, pv, sse>>

(* lines 225-233 *)
EvBegin ==
    /\ ev.phase = "init"
    /\ IF ev.candidate.present
       THEN /\ ev' = [ev EXCEPT !.phase = "tasks", !.evaluation_count = @ + 1]
            /\ progress' = update_progress(progress, EvalConfig,
                   [message |-> <<"Evaluating candidate...">>,
                    current_iteration |-> ev.evaluation_count + 1])
       ELSE /\ ev' = [ev EXCEPT !.phase = "raised"]
            /\ UNCHANGED progress
    /\ UNCHANGED evalFrame

(* the task of row i starts, lines 126-129: asyncio.gather (236-241) starts *)
(* the tasks in the order of inputs; the task runs up to the await of       *)
(* chat_completion (line 104), or fails before the call is made            *)
EvGenerate(i) ==
    /\ ev.phase = "tasks"
    /\ ev.gen[i] = "pending"
    /\ \A k \in 1..(i - 1) : ev.gen[k] # "pending"
    /\ LET row_data == ev.inputs[i].row_data
           prepared == PrepareGeneration(ev.candidate.text, row_data,
                                         ev.user_message_column)
           g == generate_output(ev.candidate.text, row_data,
                                ev.user_message_column, NotCalled)
       IN  IF prepared.ok
           THEN ev' = [ev EXCEPT !.gen[i] = "calling"]
           ELSE ev' = [ev EXCEPT !.gen[i] = "failed", !.llm[i] = NotCalled,
                          !.res[i] = GenerationFailedResult(g.err),
                          !.order = Append(@, i)]
    /\ UNCHANGED progress
    /\ UNCHANGED evalFrame

(* the chat_completion call of row i returns or raises; lines 104-137 *)
EvGenerateReturn(i) ==
    /\ ev.phase = "tasks"
    /\ ev.gen[i] = "calling"
    /\ LET row_data == ev.inputs[i].row_data
       IN  \E response \in LLMResponses :
              LET g == generate_output(ev.candidate.text, row_data,
                                       ev.user_message_column, response)
              IN  IF ~g.ok
                  THEN ev' = [ev EXCEPT !.gen[i] = "failed", !.llm[i] = response,
                                 !.res[i] = GenerationFailedResult(g.err),
                                 !.order = Append(@, i)]
                  ELSE IF g.val = <<>> \/ Strip(g.val) = <<>>
                  THEN ev' = [ev EXCEPT !.gen[i] = "failed", !.llm[i] = response,
                                 !.res[i] = GenerationFailedResult("empty_output"),
                                 !.order = Append(@, i)]
                  ELSE ev' = [ev EXCEPT !.gen[i] = "ok", !.llm[i] = response,
                                 !.summary[i] = g.val]
    /\ UNCHANGED progress
    /\ UNCHANGED evalFrame

(* one evaluate_judge task of row i completes, lines 145-158 *)
EvJudge(i, j) ==
    /\ ev.phase = "tasks"
    /\ ev.gen[i] = "ok"
    /\ ev.jout[i][j].kind = "pending"
    /\ \E outcome \in JudgeOutcomes :
          ev' = [ev EXCEPT !.jout[i][j] = outcome, !.jorder[i] = Append(@, j)]
    /\ UNCHANGED progress
    /\ UNCHANGED evalFrame

(* the judges of row i are gathered; function evals and step 3, 161-206 *)
EvFinishItem(i) ==
    /\ ev.phase = "tasks"
    /\ ev.gen[i] = "ok"
    /\ ~ev.res[i].done
    /\ \A j \in DOMAIN ev.judge_configs : ev.jout[i][j].kind # "pending"
    /\ \E fo \in FunctionOutcomeSeqs(ev.function_eval_configs) :
          ev' = [ev EXCEPT
                   !.fout[i] = fo,
                   !.res[i] = GradeItem(ev.inputs[i], ev.summary[i],
                                        ev.judge_configs, ev.jout[i], ev.jorder[i],
                                        ev.function_eval_configs, fo,
                                        ev.capture_traces),
                   !.order = Append(@, i)]
    /\ UNCHANGED progress
    /\ UNCHANGED evalFrame

(* all row tasks are gathered; lines 243-278 *)
EvCollect ==
    /\ ev.phase = "tasks"
    /\ \A i \in DOMAIN ev.inputs : ev.res[i].done
    /\ LET results == gather(ev.res, ev.order)
           batch == EvaluationBatch(results, ev.capture_traces)
           total == RatSum(batch.scores)
           avg_score == IF batch.scores = <<>> THEN Zero
                        ELSE Rat(total.num, total.den * Len(batch.scores))
       IN  /\ ev' = [ev EXCEPT !.phase = "returned", !.batch = batch]
           /\ progress' = update_progress(progress, EvalConfig,
                  [current_score |-> avg_score,
                   message |-> <<"Completed evaluation">>])
    /\ UNCHANGED evalFrame

NextEval ==
    \/ EvBegin
    \/ \E i \in DOMAIN ev.inputs : EvGenerate(i)
    \/ \E i \in DOMAIN ev.inputs : EvGenerateReturn(i)
    \/ \E i \in DOMAIN ev.inputs : \E j \in DOMAIN ev.judge_configs : EvJudge(i, j)
    \/ \E i \in DOMAIN ev.inputs : EvFinishItem(i)
    \/ EvCollect

SpecEval == InitEval /\ [][NextEval]_vars

----------------------------------------------------------------------------
(* Properties of Spec *)

RunGepaPCs ==
    {"rg_clear", "rg_init", "rg_validate", "rg_opt_msg", "rg_optimize",
     "rg_eval_end", "rg_final_msg", "rg_final_eval", "rg_final_eval_end",
     "rg_best_score", "rg_set_error", "rg_root", "rg_version", "rg_insert",
     "rg_verify", "rg_complete"}

(* the workers that are inside run_gepa for config c *)
RunsInProgress(c) == {w \in Workers : wcfg[w] = c /\ wpc[w] \in RunGepaPCs}

(* C1: at no time are two Driver runs for the same config identifier in    *)
(* progress at once, under every interleaving of start requests, workers   *)
(* and progress operations.                                                *)
C1_SingleActiveRun == \A c \in Configs : Cardinality(RunsInProgress(c)) <= 1

(* the record a start request leaves behind when nothing else writes *)
FreshRunningRecord(c) ==
    [DefaultRecord EXCEPT !.status = "running", !.current_iteration = 0,
                          !.max_iterations = max_metric_calls(c),
                          !.message = <<"Initializing optimization...">>]

(* C2: a start request is rejected with a conflict, leaving the progress   *)
(* record unchanged and scheduling no worker, exactly when the record of   *)
(* the config exists with status running; otherwise it is accepted, and    *)
(* the request's own write of the record, made before it returns, leaves a *)
(* fresh record with status running, and on return exactly one worker has  *)
(* been scheduled.                                                         *)
C2_StartDecision ==
    [][ /\ \A c \in Configs :
             ( /\ starts' = starts + 1
               /\ \/ resp' = [cfg |-> c, code |-> 400]
                  \/ req' = [pc |-> "clear", cfg |-> c] )
             => /\ (resp'.code = 400) <=> (StatusOf(progress, c) = "running")
                /\ (resp'.code = 400) =>
                      progress' = progress /\ queue' = queue /\ req'.pc = "idle"
        /\ (req.pc = "init" /\ req'.pc = "schedule")
             => /\ req.cfg \in DOMAIN progress'
                /\ progress'[req.cfg] = FreshRunningRecord(req.cfg)
        /\ (req.pc = "schedule" /\ req'.pc = "idle")
             => /\ resp' = [cfg |-> req.cfg, code |-> 200]
                /\ queue' = Append(queue, req.cfg)
      ]_vars

(* C3: whenever an exception raised inside run_gepa reaches run_gepa's     *)
(* caller, the progress record of the config already has status error and  *)
(* its message holds the failure description.                              *)
C3_ErrorRecordedBeforeRaise ==
    \A w \in Workers :
        wpc[w] = "sync_except"
        => /\ StatusOf(progress, wcfg[w]) = "error"
           /\ progress[wcfg[w]].message = <<"Optimization failed", wl[w].err>>

----------------------------------------------------------------------------
(* Properties of SpecEval *)

NJ == Len(ev.judge_configs)
NF == Len(ev.function_eval_configs)

(* what scorer outcome o adds to a row's score list *)
Contribution(o) == IF o.kind = "score" THEN o.score ELSE 0

(* the score of row i computed from what its own scorers did *)
ExpectedScore(i) ==
    Rat(SumSeq([j \in 1..NJ |-> Contribution(ev.jout[i][j])])
          + SumSeq([f \in 1..NF |-> Contribution(ev.fout[i][f])]),
        NJ + NF)

(* the output of row i computed from what its own LLM call returned *)
ExpectedOutput(i) == IF ev.gen[i] = "ok" THEN Strip(ev.llm[i].text) ELSE <<>>

(* C4: evaluate returns scores and outputs of the length of the batch, and *)
(* position i of each holds the result of input row i (the output of row   *)
(* i's own generation, the score of row i's own scorers), in whatever      *)
(* order the row tasks completed and whichever rows failed.                *)
C4_AlignedResults ==
    ev.phase = "returned" =>
        /\ Len(ev.batch.scores) = Len(ev.inputs)
        /\ Len(ev.batch.outputs) = Len(ev.inputs)
        /\ \A i \in DOMAIN ev.inputs :
              /\ ev.batch.scores[i] = ev.res[i].score
              /\ ev.batch.outputs[i] = ev.res[i].output
              /\ ev.batch.outputs[i] = ExpectedOutput(i)
              /\ ev.gen[i] = "failed" => ev.batch.scores[i] = Zero
              /\ (ev.gen[i] = "ok" /\ NJ + NF > 0)
                    => RatEq(ev.batch.scores[i], ExpectedScore(i))

(* two rows, the second completed first, the first failed, the second *)
(* scored above zero                                                  *)
C4_Witness ==
    /\ ev.phase = "returned"
    /\ Len(ev.inputs) = 2
    /\ ev.order = <<2, 1>>
    /\ ev.gen[1] = "failed"
    /\ ev.gen[2] = "ok"
    /\ ev.batch.scores[2].num > 0
    /\ ev.batch.outputs[2] # <<>>

(* the generation failures of row i, read off the inputs of the call *)
TemplateColumns ==
    {ev.candidate.text[k].s :
        k \in {x \in DOMAIN ev.candidate.text : ev.candidate.text[x].kind = "var"}}

RenderedText(i) ==
    Flatten([k \in DOMAIN ev.candidate.text |->
                IF ev.candidate.text[k].kind = "lit"
                THEN <<ev.candidate.text[k].s>>
                ELSE RowGet(ev.inputs[i].row_data, ev.candidate.text[k].s)])

FailureCase(i) ==
    \/ TemplateColumns \ available_columns # {}
    \/ RenderedText(i) = <<>>
    \/ ev.llm[i].kind = "raise"
    \/ ev.llm[i].kind = "text" /\ ev.llm[i].text = <<>>

(* C5: a row whose generation fails (template names an unknown column,     *)
(* rendered prompt empty, LLM call raises or returns nothing) gets score   *)
(* 0.0 and the empty output, none of its scorers is run, evaluate does not *)
(* raise, and every other row is generated and scored from its own data.   *)
C5_GenerationFailureAbsorbed ==
    /\ ev.phase = "raised" => ~ev.candidate.present
    /\ ev.phase \in {"tasks", "returned"} =>
          \A i \in DOMAIN ev.inputs :
             /\ (ev.gen[i] # "pending" /\ FailureCase(i)) => ev.gen[i] = "failed"
             /\ ev.gen[i] = "failed" =>
                   /\ ev.res[i].done
                   /\ ev.res[i].score = Zero
                   /\ ev.res[i].output = <<>>
                   /\ \A j \in 1..NJ : ev.jout[i][j] = Pending
                   /\ ev.fout[i] = <<>>
                   /\ ev.phase = "returned" =>
                         /\ ev.batch.scores[i] = Zero
                         /\ ev.batch.outputs[i] = <<>>
             /\ (ev.gen[i] = "ok" /\ ev.phase = "returned") =>
                   /\ \A j \in 1..NJ : ev.jout[i][j] # Pending
                   /\ Len(ev.fout[i]) = NF
                   /\ ev.batch.outputs[i] = Strip(ev.llm[i].text)
                   /\ Len(ev.res[i].all_scores) = NJ + NF
                   /\ NJ + NF > 0 => RatEq(ev.batch.scores[i], ExpectedScore(i))

(* a returned batch of two rows and one scorer: the first row's template   *)
(* names an unknown column or its LLM call failed, the second row was      *)
(* generated and scored above zero                                         *)
C5_Witness ==
    /\ ev.phase = "returned"
    /\ Len(ev.inputs) = 2
    /\ NJ + NF = 1
    /\ ev.gen[1] = "failed"
    /\ ev.llm[1].kind = "raise"
    /\ ev.gen[2] = "ok"
    /\ ev.batch.scores[2].num > 0

(* the feedback fragment "<name>: failed (<error>)" *)
FailedFragment(name, error) == Fragment(name, TRUE, 0, error)

(* C6: for a generated row, a judge or function scorer that raises (an     *)
(* unregistered function name included) contributes exactly 0.0 to the     *)
(* row's score list and the fragment "<scorer name>: failed (<error>)",    *)
(* every other configured scorer still contributes, and evaluate does not  *)
(* raise; if every scorer raises the row's combined score is 0.0.          *)
C6_ScorerFailureAbsorbed ==
    /\ ev.phase = "raised" => ~ev.candidate.present
    /\ \A i \in DOMAIN ev.inputs :
          (ev.gen[i] = "ok" /\ ev.res[i].done) =>
             /\ Len(ev.res[i].all_scores) = NJ + NF
             /\ NJ + NF > 0 => Len(ev.res[i].feedback) = NJ + NF
             /\ \A j \in 1..NJ :
                   IF ev.jout[i][j].kind = "raise"
                   THEN /\ ev.res[i].all_scores[j] = 0
                        /\ ev.res[i].feedback[j] =
                              FailedFragment(ev.judge_configs[j], ev.jout[i][j].err)
                   ELSE /\ ev.res[i].all_scores[j] = ev.jout[i][j].score
                        /\ ~ev.res[i].feedback[j].failed
             /\ \A f \in 1..NF :
                   /\ ev.function_eval_configs[f].function_name \notin RegisteredPlugins
                         => ev.fout[i][f].kind = "raise"
                   /\ IF ev.fout[i][f].kind = "raise"
                      THEN /\ ev.res[i].all_scores[NJ + f] = 0
                           /\ ev.res[i].feedback[NJ + f] =
                                 FailedFragment(ev.function_eval_configs[f].name,
                                                ev.fout[i][f].err)
                      ELSE /\ ev.res[i].all_scores[NJ + f] = ev.fout[i][f].score
                           /\ ~ev.res[i].feedback[NJ + f].failed
             /\ ( /\ \A j \in 1..NJ : ev.jout[i][j].kind = "raise"
                  /\ \A f \in 1..NF : ev.fout[i][f].kind = "raise" )
                   => RatEq(ev.res[i].score, Zero)

(* a returned batch whose row 1 was generated, its judge raised and its    *)
(* function scorer, run after it, scored above zero                        *)
C6_Witness ==
    /\ ev.phase = "returned"
    /\ Len(ev.inputs) >= 1
    /\ ev.gen[1] = "ok"
    /\ NJ = 1
    /\ NF = 1
    /\ ev.jout[1][1].kind = "raise"
    /\ ev.fout[1][1].kind = "score"
    /\ ev.fout[1][1].score > 0
    /\ ev.batch.scores[1].num > 0

(* C7: with capture_traces, the returned trajectories have one entry per   *)
(* input row, parallel to scores and outputs, and the entry of a row whose *)
(* generation failed holds the failure reason as its feedback.             *)
C7_TrajectoryPerRow ==
    (ev.phase = "returned" /\ ev.capture_traces) =>
        /\ Len(ev.batch.trajectories) = Len(ev.inputs)
        /\ \A i \in DOMAIN ev.inputs :
              /\ ev.batch.trajectories[i].present
              /\ ev.gen[i] = "failed" =>
                    ev.batch.trajectories[i].feedback = ev.res[i].feedback

(* C8: the combined score of a generated row is the sum of the per-scorer  *)
(* scores over the number of configured scorers, each judge and each       *)
(* function scorer counted once (its score, or 0.0 if it failed), scorers  *)
(* of the same name included.                                              *)
C8_CombinedScoreIsMean ==
    \A i \in DOMAIN ev.inputs :
        (ev.gen[i] = "ok" /\ ev.res[i].done /\ NJ + NF > 0) =>
            /\ RatEq(ev.res[i].score, ExpectedScore(i))
            /\ ev.phase = "returned" => RatEq(ev.batch.scores[i], ExpectedScore(i))

(* two judges of the same name, the first scored above zero, the second 0 *)
C8_Witness ==
    /\ ev.phase = "returned"
    /\ Len(ev.inputs) >= 1
    /\ ev.gen[1] = "ok"
    /\ NJ = 2
    /\ ev.judge_configs[1] = ev.judge_configs[2]
    /\ ev.jout[1][1].kind = "score"
    /\ ev.jout[1][1].score > 0
    /\ ev.jout[1][2] = Scored(0)
    /\ ev.batch.scores[1].num > 0

----------------------------------------------------------------------------
(* SpecSplit: the train/validation split of run_gepa, gepa_service.py       *)
(* 368-394.  A row is [id, row_data]; random.shuffle leaves the rows in one *)
(* of the orders of Shuffles.                                               *)

MaxSplitRows == 10     \* rows of the dataset

Rotate(s, k) == [x \in DOMAIN s |-> s[((x + k - 1) % Len(s)) + 1]]
Reverse(s) == [x \in DOMAIN s |-> s[Len(s) + 1 - x]]

(* the outcomes of random.shuffle drawn here: the rotations of the list and *)
(* of its reversal                                                          *)
Shuffles(s) ==
    IF s = <<>> THEN {s}
    ELSE {Rotate(s, k) : k \in 0..(Len(s) - 1)}
         \cup {Rotate(Reverse(s), k) : k \in 0..(Len(s) - 1)}

(* line 375 without the max(1, ...) *)
val_cut_unguarded(n) == (2 * n) \div 10

(* line 375: max(1, int(0.2 * len(all_rows))) *)
val_cut(n) == IF (2 * n) \div 10 >= 1 THEN (2 * n) \div 10 ELSE 1

(* Python slices rows[:k] and rows[k:] *)
SliceTo(s, k) == SubSeq(s, 1, IF k <= Len(s) THEN k ELSE Len(s))
SliceFrom(s, k) == SubSeq(s, (IF k <= Len(s) THEN k ELSE Len(s)) + 1, Len(s))

(* lines 379-394 *)
PrepareSet(rows) ==
    [k \in DOMAIN rows |-> [row_data |-> rows[k].row_data, csv_row_id |-> rows[k].id]]

LoadedRows(n) == [k \in 1..n |-> [id |-> k, row_data |-> [q |-> <<"a">>]]]

SplitStart(rows) ==
    [phase |-> "loaded", loaded |-> rows, all_rows |-> rows,
     valset_rows |-> <<>>, trainset_rows |-> <<>>, valset |-> <<>>, trainset |-> <<>>]

InitSplit ==
    /\ progress = update_progress(<<>>, EvalConfig,
           [status |-> "running", message |-> <<"Starting GEPA optimization...">>])
    /\ req = ReqIdle
    /\ resp = NoResponse
    /\ starts = 0
    /\ queue = <<>>
    /\ wpc = [w \in Workers |-> "idle"]
    /\ wcfg = [w \in Workers |-> 0]
    /\ wl = [w \in Workers |-> LocalsInit]
    /\ prompts = InitialPrompts
    /\ ev = EvIdle
    /\ \E n \in 0..MaxSplitRows : sp = SplitStart(LoadedRows(n))
    /\ pv = PvIdle
    /\ sse = SseIdle

splitFrame == <<progress, req, resp, starts, queue, wpc, wcfg, wl, prompts, ev, pv, sse>>

(* lines 369-371 *)
SpCheckRows ==
    /\ sp.phase = "loaded"
    /\ sp' = [sp EXCEPT !.phase = IF sp.all_rows = <<>> THEN "raised" ELSE "checked"]
    /\ UNCHANGED splitFrame

(* line 374 *)
SpShuffle ==
    /\ sp.phase = "checked"
    /\ \E shuffled \in Shuffles(sp.all_rows) :
          sp' = [sp EXCEPT !.phase = "shuffled", !.all_rows = shuffled]
    /\ UNCHANGED splitFrame

(* lines 375-377 *)
SpCut ==
    /\ sp.phase = "shuffled"
    /\ sp' = [sp EXCEPT !.phase = "cut",
                        !.valset_rows = SliceTo(sp.all_rows, val_cut(Len(sp.all_rows))),
                        !.trainset_rows = SliceFrom(sp.all_rows, val_cut(Len(sp.all_rows)))]
    /\ UNCHANGED splitFrame

(* lines 379-394 *)
SpPrepare ==
    /\ sp.phase = "cut"
    /\ sp' = [sp EXCEPT !.phase = "split",
                        !.trainset = PrepareSet(sp.trainset_rows),
                        !.valset = PrepareSet(sp.valset_rows)]
    /\ UNCHANGED splitFrame

NextSplit ==
    \/ SpCheckRows
    \/ SpShuffle
    \/ SpCut
    \/ SpPrepare

SpecSplit == InitSplit /\ [][NextSplit]_vars

(* Properties of SpecSplit *)

RowIds(set) == {set[k].csv_row_id : k \in DOMAIN set}
LoadedIds == {sp.loaded[k].id : k \in DOMAIN sp.loaded}

(* C9: when R >= 1 loaded rows are split, every row is in exactly one of   *)
(* the training and the validation set, the sizes add up to R, the         *)
(* validation set has max(1, floor(R/5)) >= 1 rows, and for R = 1 the      *)
(* training set is empty.                                                  *)
C9_SplitPartition ==
    (sp.phase = "split" /\ Len(sp.loaded) >= 1) =>
        LET R == Len(sp.loaded)
        IN  /\ Len(sp.trainset) + Len(sp.valset) = R
            /\ Len(sp.valset) = (IF R \div 5 >= 1 THEN R \div 5 ELSE 1)
            /\ Len(sp.valset) >= 1
            /\ RowIds(sp.trainset) \cup RowIds(sp.valset) = LoadedIds
            /\ RowIds(sp.trainset) \cap RowIds(sp.valset) = {}
            /\ Cardinality(RowIds(sp.trainset)) = Len(sp.trainset)
            /\ Cardinality(RowIds(sp.valset)) = Len(sp.valset)
            /\ R = 1 => sp.trainset = <<>>

(* ten rows, shuffled out of their loaded order, two of them validation *)
C9_Witness ==
    /\ sp.phase = "split"
    /\ Len(sp.loaded) = 10
    /\ sp.all_rows # sp.loaded
    /\ Len(sp.valset) = 2
    /\ Len(sp.trainset) = 8

----------------------------------------------------------------------------
(* SpecPersist: the prompts table under the prompt endpoints (prompt.py)    *)
(* and the persisting phase of run_gepa, gepa_service.py 473-513.  While a  *)
(* run persists, the endpoints write only to other chains, except that the  *)
(* version the run has just written may be deleted before it is read back.  *)

MaxPrompts == 4        \* prompt ids are 1..MaxPrompts

(* create_prompt without parent_prompt_id, prompt.py 70-78 *)
NewRootRow == [parent |-> NoParent, version |-> 1, name |-> "A", umc |-> "",
               text |-> <<"s">>]

(* create_prompt with parent_prompt_id and create_prompt_version, *)
(* prompt.py 47-68 and 204-224                                    *)
create_version_row(store, prompt_id) ==
    LET root_prompt_id == get_root_prompt_id(store, prompt_id)
    IN  [parent |-> root_prompt_id,
         version |-> get_next_prompt_version(store, root_prompt_id),
         name |-> store[prompt_id].name, umc |-> "", text |-> <<"t">>]

(* delete_prompt, prompt.py 234-244; parent_prompt_id is declared          *)
(* ondelete SET NULL (models/prompt.py 18), which the database applies     *)
(* only when it enforces foreign keys                                      *)
delete_prompt(store, prompt_id, enforced) ==
    [p \in DOMAIN store \ {prompt_id} |->
        IF enforced /\ store[p].parent = prompt_id
        THEN [store[p] EXCEPT !.parent = NoParent]
        ELSE store[p]]

BestPrompts == {<<"p">>, <<" ", "p", " ">>}

(* lines 508-513 with the comparison of line 512 left out *)
read_back_check_exists_only(store, new_prompt_id, optimized_content) ==
    IF new_prompt_id \notin DOMAIN store THEN "retrieve_failed" ELSE "ok"

(* lines 508-513: the row is read back by id and its text compared *)
read_back_check(store, new_prompt_id, optimized_content) ==
    IF new_prompt_id \notin DOMAIN store THEN "retrieve_failed"
    ELSE IF store[new_prompt_id].text # optimized_content THEN "content_mismatch"
    ELSE "ok"

(* what the table holds after the commit of text t: t, or t cut short by *)
(* a faulty write                                                        *)
StoredTexts(t) == {t, SubSeq(t, 1, Len(t) - 1)}

(* the progress record when run_gepa reaches line 473 *)
PersistProgress ==
    update_progress(<<>>, EvalConfig,
        [status |-> "running", message |-> <<"Final validation score">>])

PersistIdle ==
    [phase |-> "idle", base |-> 0, user_message_column |-> "", best_prompt |-> <<>>,
     best_score |-> 0,
     before |-> <<>>, root_prompt_id |-> 0, version |-> 0, new_prompt_id |-> 0]

InitPersist ==
    /\ progress = PersistProgress
    /\ req = ReqIdle
    /\ resp = NoResponse
    /\ starts = 0
    /\ queue = <<>>
    /\ wpc = [w \in Workers |-> "idle"]
    /\ wcfg = [w \in Workers |-> 0]
    /\ wl = [w \in Workers |-> LocalsInit]
    /\ prompts = <<>>
    /\ ev = EvIdle
    /\ sp = SpIdle
    /\ pv = PersistIdle
    /\ sse = SseIdle

persistLocals == <<req, resp, starts, queue, wpc, wcfg, wl, ev, sp>>
persistFrame == <<progress, req, resp, starts, queue, wpc, wcfg, wl, ev, sp, sse>>

(* from line 473 until run_gepa has returned its result *)
Persisting == pv.phase \in {"root", "version", "insert", "verify", "complete", "done"}

(* prompt_id is on the chain the persisting run writes to *)
OnRunChain(prompt_id) ==
    /\ Persisting
    /\ \/ prompt_id = pv.base
       \/ get_root_prompt_id(prompts, prompt_id) = get_root_prompt_id(prompts, pv.base)

PvCreateRoot ==
    /\ NewPromptId(prompts) <= MaxPrompts
    /\ prompts' = InsertPrompt(prompts, NewRootRow)
    /\ UNCHANGED <<pv, persistFrame>>

PvCreateVersion(prompt_id) ==
    /\ prompt_id \in DOMAIN prompts
    /\ ~OnRunChain(prompt_id)
    /\ NewPromptId(prompts) <= MaxPrompts
    /\ prompts' = InsertPrompt(prompts, create_version_row(prompts, prompt_id))
    /\ UNCHANGED <<pv, persistFrame>>

PvDelete(prompt_id) ==
    /\ prompt_id \in DOMAIN prompts
    /\ \/ ~OnRunChain(prompt_id)
       \/ pv.phase = "verify" /\ prompt_id = pv.new_prompt_id
    /\ \E enforced \in BOOLEAN : prompts' = delete_prompt(prompts, prompt_id, enforced)
    /\ UNCHANGED <<pv, persistFrame>>

(* run_gepa reaches line 473 with its base prompt (lines 340-349) and the *)
(* best prompt of the search                                              *)
PvStart(base) ==
    /\ pv.phase = "idle"
    /\ base \in DOMAIN prompts
    /\ \E best_prompt \in BestPrompts :
          pv' = [PersistIdle EXCEPT !.phase = "root", !.base = base,
                                    !.user_message_column = prompts[base].umc,
                                    !.best_prompt = best_prompt,
                                    !.before = prompts]
    /\ progress' = PersistProgress
    /\ UNCHANGED <<prompts, persistLocals, sse>>

(* lines 474-479 *)
PvRoot ==
    /\ pv.phase = "root"
    /\ LET root == get_root_prompt_id(prompts, pv.base)
       IN  pv' = IF root \in DOMAIN prompts
                 THEN [pv EXCEPT !.phase = "version", !.root_prompt_id = root]
                 ELSE [pv EXCEPT !.phase = "raised"]
    /\ UNCHANGED <<prompts, persistFrame>>

(* line 481 *)
PvVersion ==
    /\ pv.phase = "version"
    /\ pv' = [pv EXCEPT !.phase = "insert",
                        !.version = get_next_prompt_version(prompts, pv.root_prompt_id)]
    /\ UNCHANGED <<prompts, persistFrame>>

(* lines 486-504 *)
PvInsert ==
    /\ pv.phase = "insert"
    /\ \E committed \in BOOLEAN :
          IF committed /\ NewPromptId(prompts) <= MaxPrompts
          THEN /\ \E stored \in StoredTexts(Strip(pv.best_prompt)) :
                     prompts' = InsertPrompt(prompts,
                        [NewVersionRow(prompts, pv.root_prompt_id, pv.version,
                                       pv.best_prompt, pv.user_message_column)
                           EXCEPT !.text = stored])
               /\ pv' = [pv EXCEPT !.phase = "verify",
                                   !.new_prompt_id = NewPromptId(prompts)]
          ELSE /\ pv' = [pv EXCEPT !.phase = "raised"]
               /\ UNCHANGED prompts
    /\ UNCHANGED persistFrame

(* lines 506-513: the read-back by id and the comparison of the content *)
PvVerify ==
    /\ pv.phase = "verify"
    /\ pv' = [pv EXCEPT !.phase =
                 IF read_back_check(prompts, pv.new_prompt_id,
                                    Strip(pv.best_prompt)) = "ok"
                 THEN "complete" ELSE "raised"]
    /\ UNCHANGED <<prompts, persistFrame>>

(* lines 516-521 *)
PvComplete ==
    /\ pv.phase = "complete"
    /\ progress' = set_complete(progress, EvalConfig, pv.best_score,
                                <<"Optimization completed">>, pv.new_prompt_id)
    /\ pv' = [pv EXCEPT !.phase = "done"]
    /\ UNCHANGED <<prompts, persistLocals, sse>>

(* run_gepa has returned, or has raised to _run_gepa_sync (gepa.py 263-265); *)
(* the next run may start                                                    *)
PvReturn ==
    /\ pv.phase \in {"done", "raised"}
    /\ progress' = IF pv.phase = "raised"
                   THEN set_error(progress, EvalConfig, <<"Optimization failed">>)
                   ELSE progress
    /\ pv' = PersistIdle
    /\ UNCHANGED <<prompts, persistLocals, sse>>

NextPersist ==
    \/ PvCreateRoot
    \/ \E prompt_id \in 1..MaxPrompts : PvCreateVersion(prompt_id)
    \/ \E prompt_id \in 1..MaxPrompts : PvDelete(prompt_id)
    \/ \E base \in 1..MaxPrompts : PvStart(base)
    \/ PvRoot
    \/ PvVersion
    \/ PvInsert
    \/ PvVerify
    \/ PvComplete
    \/ PvReturn

SpecPersist == InitPersist /\ [][NextPersist]_vars

(* Properties of SpecPersist *)

(* the prompt without parent that the parent links of prompt_id lead to, *)
(* NoParent when they lead out of the table or do not end                *)
RECURSIVE ChainRoot(_, _, _)
ChainRoot(store, prompt_id, fuel) ==
    IF prompt_id \notin DOMAIN store \/ fuel = 0 THEN NoParent
    ELSE IF store[prompt_id].parent = NoParent THEN prompt_id
    ELSE ChainRoot(store, store[prompt_id].parent, fuel - 1)

(* the versions of the root and of the prompts whose parent is the root *)
ChainVersions(store, root) ==
    {store[p].version : p \in {q \in DOMAIN store : q = root \/ store[q].parent = root}}

(* C10: after a successful run with no other writer on the chain, the new  *)
(* version's number is 1 + the largest version among the chain's root and  *)
(* the prompts whose parent is the root, and its parent is the root of the *)
(* base prompt's chain, not the base prompt when that is a later version.  *)
C10_NewVersionOnRoot ==
    pv.phase = "done" =>
        LET root == ChainRoot(pv.before, pv.base, MaxPrompts + 1)
            new == pv.new_prompt_id
        IN  /\ root # NoParent
            /\ new \in DOMAIN prompts
            /\ prompts[new].parent = root
            /\ prompts[new].version = 1 + SetMax(ChainVersions(pv.before, root) \cup {0})
            /\ \A p \in DOMAIN prompts \ {new} :
                  (p = root \/ prompts[p].parent = root)
                     => prompts[p].version < prompts[new].version

(* a run whose base prompt is a later version of a root: the new version *)
(* hangs off the root and is numbered after the base                     *)
C10_Witness ==
    /\ pv.phase = "done"
    /\ pv.base \in DOMAIN pv.before
    /\ pv.before[pv.base].parent # NoParent
    /\ pv.before[pv.base].version >= 2
    /\ prompts[pv.new_prompt_id].parent # pv.base
    /\ prompts[pv.new_prompt_id].version = pv.before[pv.base].version + 1

----------------------------------------------------------------------------
(* Properties of Spec: the stored version *)

(* the workers whose run has written its prompt version *)
HasWritten(w) == wpc[w] \in {"rg_verify", "rg_complete"}

(* C11: the prompt version a run creates carries the name and the          *)
(* user_message_column of the root of the base prompt's chain, also when   *)
(* the base prompt is a later version whose user_message_column differs    *)
(* from the root's.                                                        *)
C11_InheritsFromRoot ==
    \A w \in Workers :
        HasWritten(w) =>
            /\ prompts[wl[w].new_prompt_id].name = prompts[wl[w].root_prompt_id].name
            /\ prompts[wl[w].new_prompt_id].umc = prompts[wl[w].root_prompt_id].umc

(* the text the run intends to persist, line 486 *)
IntendedText == Strip(pv.best_prompt)

(* the written version can be read back and holds the intended text *)
StoredAsIntended ==
    /\ pv.new_prompt_id \in DOMAIN prompts
    /\ prompts[pv.new_prompt_id].text = IntendedText

(* C12: after the write the version is read back; if it cannot be read     *)
(* back or its text differs from the intended text the run raises and      *)
(* never writes status completed; a run that writes status completed has   *)
(* stored exactly the intended text.                                       *)
C12_ReadBackGuardsCompletion ==
    [][ /\ (pv.phase = "verify" /\ pv'.phase # "verify")
             => pv'.phase = (IF StoredAsIntended THEN "complete" ELSE "raised")
        /\ pv.phase = "raised" => StatusOf(progress, EvalConfig) # "completed"
        /\ ( /\ StatusOf(progress', EvalConfig) = "completed"
             /\ StatusOf(progress, EvalConfig) # "completed" )
             => /\ pv.phase = "complete"
                /\ StoredAsIntended
                /\ StoredAsIntended'
                /\ pv'.phase = "done"
      ]_vars

(* a run has raised after reading back a version whose stored text is not *)
(* the intended one                                                       *)
C12_Witness ==
    /\ pv.phase = "raised"
    /\ pv.new_prompt_id \in DOMAIN prompts
    /\ prompts[pv.new_prompt_id].parent = pv.root_prompt_id
    /\ prompts[pv.new_prompt_id].version = pv.version
    /\ prompts[pv.new_prompt_id].text # IntendedText

----------------------------------------------------------------------------
(* Properties of Spec: validation failures *)

(* the run of worker w made no evaluate call (so no generation and no *)
(* scorer call), no gepa.optimize call, and wrote no prompt version   *)
NothingAttempted(w) ==
    /\ wl[w].evaluation_count = 0
    /\ ~wl[w].optimize_called
    /\ wl[w].result_best = NoCandidate
    /\ wl[w].best_prompt = <<>>
    /\ wl[w].new_prompt_id = 0

(* C13: a run started through _run_gepa_sync whose dataset is missing,     *)
(* whose base prompt is missing or has no system_prompt, none of whose     *)
(* scorer configs resolves, or whose dataset has no rows ends with         *)
(* progress status error, having made no generation, scorer or search      *)
(* call and created no prompt version.                                     *)
C13_ValidationFailureIsFatal ==
    [][ \A w \in Workers :
          /\ (wpc[w] = "rg_validate" /\ wpc'[w] \notin {"rg_validate", "rg_opt_msg"})
                => /\ wpc'[w] = "sync_except"
                   /\ wl'[w].err \in ValidationErrors
                   /\ NothingAttempted(w)'
                   /\ prompts' = prompts
          /\ (wl[w].err \in ValidationErrors /\ wpc[w] # "idle")
                => /\ wpc[w] = "sync_except"
                   /\ NothingAttempted(w)
          /\ (wpc[w] = "sync_except" /\ wl[w].err \in ValidationErrors
                /\ wpc'[w] # "sync_except")
                => /\ wpc'[w] = "idle"
                   /\ StatusOf(progress', wcfg[w]) = "error"
                   /\ NothingAttempted(w)'
                   /\ prompts' = prompts
      ]_vars

(* the run of worker 1 ended on a dataset without rows: status error, *)
(* nothing attempted, the prompts table as it was                     *)
C13_Witness ==
    /\ wpc[1] = "idle"
    /\ wl[1].err = "no_rows"
    /\ StatusOf(progress, wcfg[1]) = "error"
    /\ NothingAttempted(1)
    /\ prompts = InitialPrompts

----------------------------------------------------------------------------
(* Properties of Spec: the final score *)

(* the candidate the final evaluate call of line 460 was applied to *)
FinalCandidate(w) == wl[w].result_best

(* C14: the score a successful run reports comes from one evaluate call on *)
(* the validation set applied to the candidate whose text is persisted:    *)
(* the result's best candidate, or its current candidate when the best     *)
(* candidate is absent or has no usable system_prompt.                     *)
C14_ScoreOfPersistedCandidate ==
    \A w \in Workers :
        wpc[w] = "rg_complete"
        => /\ FinalCandidate(w).present
           /\ FinalCandidate(w).text = wl[w].best_prompt

----------------------------------------------------------------------------
(* Properties of Spec: completion *)

(* worker w leaves run_gepa through its return statement in this step *)
ReturnsSuccessfully(w) == wpc[w] = "rg_complete" /\ wpc'[w] = "idle"

(* C15: when run_gepa returns successfully the progress record of the      *)
(* config has status completed, best_score equal to the returned score and *)
(* new_prompt_id equal to the returned id, which identifies a stored       *)
(* prompt version this run created; status completed is written only by a  *)
(* run that created and verified a version.                                *)
C15_CompletedMeansStored ==
    [][ /\ \A w \in Workers :
             ReturnsSuccessfully(w) =>
                /\ StatusOf(progress', wcfg[w]) = "completed"
                /\ progress'[wcfg[w]].best_score = wl[w].best_score
                /\ progress'[wcfg[w]].new_prompt_id = wl[w].new_prompt_id
                /\ wl[w].new_prompt_id \in DOMAIN prompts'
                /\ wl[w].new_prompt_id \notin DOMAIN InitialPrompts
                /\ prompts'[wl[w].new_prompt_id].parent = wl[w].root_prompt_id
                /\ prompts'[wl[w].new_prompt_id].version = wl[w].version
                /\ prompts'[wl[w].new_prompt_id].text = Strip(wl[w].best_prompt)
        /\ \A c \in Configs :
             (StatusOf(progress', c) = "completed" /\ StatusOf(progress, c) # "completed")
                => \E w \in Workers : wcfg[w] = c /\ ReturnsSuccessfully(w)
        /\ \A w \in Workers :
             (wpc'[w] = "rg_complete" /\ wpc[w] # "rg_complete")
                => wpc[w] = "rg_verify" /\ wl[w].new_prompt_id \in DOMAIN prompts
      ]_vars

(* worker 1 has returned from a run that stored version 3 as prompt 3 *)
C15_Witness ==
    /\ wpc[1] = "idle"
    /\ wl[1].new_prompt_id = 3
    /\ StatusOf(progress, wcfg[1]) = "completed"
    /\ progress[wcfg[1]].new_prompt_id = 3
    /\ progress[wcfg[1]].best_score = wl[1].best_score
    /\ prompts[3].version = 3


(***************************************************************************)
(* SpecStream: the progress stream of gepa.py 315-368 next to one run.     *)
(* event_generator runs on the event loop, so its steps never fall inside  *)
(* the start handler (which has no await); the worker threads run at any   *)
(* time.  get_progress returns the store's own dict, so the local          *)
(* `progress` of the generator follows the worker's writes until           *)
(* clear_progress removes that dict from the store.  The timestamps are    *)
(* left out of the records, so two snapshots that differ only in           *)
(* updated_at are one snapshot here.                                       *)
(***************************************************************************)
NumStreams == 1
MaxStreamStarts == 1

Streams == 1..NumStreams

Terminal == {"completed", "error"}

NoEvent == [kind |-> "none", data |-> <<>>]
WaitingEvent == [kind |-> "waiting", data |-> <<>>]
ClosedEvent == [kind |-> "closed", data |-> <<>>]
ProgressEvent(progress_json) == [kind |-> "progress", data |-> progress_json]

(* locals of event_generator; detached holds the dict behind `progress`    *)
(* once it is no longer the store's; last_event, repeated, terminal_sent    *)
(* and after_accept record what the client has seen                        *)
StreamInit ==
    [pc |-> "unopened", config_id |-> 0, last_progress |-> <<>>,
     initial_sent |-> FALSE, detached |-> <<>>, last_event |-> NoEvent,
     repeated |-> FALSE, terminal_sent |-> 0, after_accept |-> FALSE]

InitStream ==
    /\ progress = <<>>
    /\ req = ReqIdle
    /\ resp = NoResponse
    /\ starts = 0
    /\ queue = <<>>
    /\ wpc = [w \in Workers |-> "idle"]
    /\ wcfg = [w \in Workers |-> 0]
    /\ wl = [w \in Workers |-> LocalsInit]
    /\ prompts = InitialPrompts
    /\ ev = EvIdle
    /\ sp = SpIdle
    /\ pv = PvIdle
    /\ sse = [s \in Streams |-> StreamInit]

streamFrame == <<progress, req, resp, starts, queue, wpc, wcfg, wl, prompts, ev, sp, pv>>

(* a yield of the generator *)
Yield(st, event) ==
    [st EXCEPT !.last_event = event,
               !.repeated = st.repeated \/ (event.kind = "progress" /\ event = st.last_event),
               !.terminal_sent = IF event.kind = "progress" /\ event.data[1].status \in Terminal
                                 THEN st.terminal_sent + 1 ELSE st.terminal_sent]

(* the request of line 316 arrives and the generator is created *)
StOpen(s, c) ==
    /\ sse[s].pc = "unopened"
    /\ req.pc = "idle"
    /\ sse' = [sse EXCEPT ![s] = [StreamInit EXCEPT !.pc = "poll", !.config_id = c,
                                     !.after_accept = (resp = [cfg |-> c, code |-> 200])]]
    /\ UNCHANGED streamFrame

(* one turn of the loop, lines 323-355, up to its yield or its sleep *)
StPoll(s) ==
    /\ sse[s].pc = "poll"
    /\ req.pc = "idle"
    /\ LET st == sse[s]
           progress_json == get_progress(progress, st.config_id)
       IN  sse' = [sse EXCEPT ![s] =
               IF progress_json # <<>>
               THEN IF progress_json # st.last_progress
                    THEN [Yield(st, ProgressEvent(progress_json)) EXCEPT
                             !.pc = "yielded", !.last_progress = progress_json,
                             !.initial_sent = TRUE, !.detached = <<>>]
                    ELSE st
               ELSE IF ~st.initial_sent
                    THEN [Yield(st, WaitingEvent) EXCEPT !.initial_sent = TRUE]
                    ELSE IF st.last_progress # <<>>
                         THEN [st EXCEPT !.pc = "closing"]
                         ELSE st]
    /\ UNCHANGED streamFrame

(* the dict behind the local `progress`: the store's, or the removed one *)
HeldDict(st) ==
    IF st.detached # <<>> THEN st.detached[1] ELSE progress[st.config_id]

(* the generator is resumed after the yield of line 330; line 335 reads    *)
(* the status of the dict as it is now                                     *)
StResume(s) ==
    /\ sse[s].pc = "yielded"
    /\ req.pc = "idle"
    /\ sse' = [sse EXCEPT ![s] =
           [sse[s] EXCEPT !.pc = IF HeldDict(sse[s]).status \in Terminal
                                 THEN "closing" ELSE "poll",
                          !.detached = <<>>]]
    /\ UNCHANGED streamFrame

(* line 358 *)
StClose(s) ==
    /\ sse[s].pc = "closing"
    /\ req.pc = "idle"
    /\ sse' = [sse EXCEPT ![s] = [Yield(sse[s], ClosedEvent) EXCEPT !.pc = "ended"]]
    /\ UNCHANGED streamFrame

(* clear_progress(c) takes the dict out of the store; a generator holding  *)
(* it keeps the dict as it was at that moment                              *)
DetachOnClear(c) ==
    [s \in Streams |->
        IF sse[s].pc = "yielded" /\ sse[s].config_id = c /\ sse[s].detached = <<>>
        THEN [sse[s] EXCEPT !.detached = get_progress(progress, c)]
        ELSE sse[s]]

(* the steps of a worker thread other than its clear_progress *)
RunStep(w) ==
    \/ WorkerPick(w) \/ SyncLoadConfig(w) \/ SyncExcept(w)
    \/ RgInit(w) \/ RgValidate(w) \/ RgOptMsg(w)
    \/ RgEvalBegin(w) \/ RgEvalEnd(w) \/ RgOptimizeRaise(w) \/ RgOptimizeReturn(w)
    \/ RgFinalMsg(w) \/ RgFinalEvalBegin(w) \/ RgFinalEvalEnd(w) \/ RgBestScore(w)
    \/ RgSetError(w) \/ RgRoot(w) \/ RgVersion(w) \/ RgInsert(w) \/ RgVerify(w)
    \/ RgComplete(w)

StStart(c) == starts < MaxStreamStarts /\ StartCheck(c) /\ UNCHANGED sse
StStartClear == StartClear /\ sse' = DetachOnClear(req.cfg)
StStartRest == (StartInit \/ StartSchedule) /\ UNCHANGED sse
StRunClear(w) == RgClear(w) /\ sse' = DetachOnClear(wcfg[w])
StRunStep(w) == RunStep(w) /\ UNCHANGED sse
StStep(s) == StPoll(s) \/ StResume(s) \/ StClose(s)

NextStream ==
    \/ \E c \in Configs : StStart(c)
    \/ StStartClear
    \/ StStartRest
    \/ \E w \in Workers : StRunClear(w)
    \/ \E w \in Workers : StRunStep(w)
    \/ \E s \in Streams : \E c \in Configs : StOpen(s, c)
    \/ \E s \in Streams : StPoll(s)
    \/ \E s \in Streams : StResume(s)
    \/ \E s \in Streams : StClose(s)

(* the event loop and the pool's threads keep running, and the client      *)
(* keeps reading an open stream                                            *)
FairStream ==
    /\ WF_vars(StStartClear \/ StStartRest)
    /\ \A w \in Workers : WF_vars(StRunClear(w) \/ StRunStep(w))
    /\ \A s \in Streams : WF_vars(StStep(s))

SpecStream == InitStream /\ [][NextStream]_vars /\ FairStream

StreamOpen(s) == sse[s].pc \in {"poll", "yielded"}
StreamEnding(s) == sse[s].pc \in {"closing", "ended"}

(* C16: a stream opened after an accepted start sends its closing event    *)
(* only after it has sent a snapshot with status completed or error        *)
C16_StreamOutlivesRun ==
    \A s \in Streams :
        (sse[s].after_accept /\ sse[s].last_event = ClosedEvent) => sse[s].terminal_sent >= 1

(* no further start request will be handled *)
NoNewRun == starts = MaxStreamStarts /\ req.pc = "idle"

RunEnded(c) == StatusOf(progress, c) \in Terminal

(* C17: once a run has reached completed or error and no new run is        *)
(* started, every stream open on the config eventually sends the terminal  *)
(* snapshot exactly once and then ends; no two consecutive progress events *)
(* of a stream are identical                                               *)
C17_TerminalSnapshotOnce ==
    /\ [](\A s \in Streams : ~sse[s].repeated)
    /\ \A s \in Streams :
          (StreamOpen(s) /\ RunEnded(sse[s].config_id) /\ NoNewRun)
              ~> (sse[s].pc = "ended" /\ sse[s].terminal_sent = 1)

(***************************************************************************)
(* SpecLive: the start endpoint and the pool of gepa.py 218 under fair     *)
(* scheduling.  Every call of a run returns or raises: each step of a      *)
(* worker is enabled until the worker is back at idle.                     *)
(***************************************************************************)
MaxLiveStarts == 2

LvStart(c) == starts < MaxLiveStarts /\ StartCheck(c) /\ UNCHANGED sse
LvHandler == (StartClear \/ StartInit \/ StartSchedule) /\ UNCHANGED sse
LvWorker(w) == (RgClear(w) \/ RunStep(w)) /\ UNCHANGED sse

NextLive ==
    \/ \E c \in Configs : LvStart(c)
    \/ LvHandler
    \/ \E w \in Workers : LvWorker(w)

(* the event loop finishes a handler it has begun; each thread of the pool *)
(* keeps being scheduled                                                   *)
FairPool ==
    /\ WF_vars(LvHandler)
    /\ \A w \in Workers : WF_vars(LvWorker(w))

SpecLive == Init /\ [][NextLive]_vars /\ FairPool

Accepted(c) == resp = [cfg |-> c, code |-> 200]
PoolIdle == queue = <<>> /\ \A w \in Workers : wpc[w] = "idle"

(* C18: under fair scheduling every accepted start is followed by a record *)
(* with status completed or error, every scheduled run ends, and the       *)
(* record does not stay at running forever                                 *)
C18_AcceptedStartTerminates ==
    /\ \A c \in Configs : Accepted(c) ~> RunEnded(c)
    /\ \A c \in Configs : <>[](StatusOf(progress, c) # "running")
    /\ <>[]PoolIdle

(* two starts were accepted, both runs are over, the record is completed *)
C18_Witness ==
    /\ Accepted(1)
    /\ starts = MaxLiveStarts
    /\ PoolIdle
    /\ \A w \in Workers : wcfg[w] = 1
    /\ StatusOf(progress, 1) = "completed"

(* ---- the phases of run_gepa, gepa_service.py 301-528 ---- *)
PhaseOf(pc) ==
    CASE pc \in {"rg_clear", "rg_init", "rg_validate"} -> "validating"
      [] pc \in {"rg_opt_msg", "rg_optimize", "rg_eval_end"} -> "running"
      [] pc \in {"rg_final_msg", "rg_final_eval", "rg_final_eval_end", "rg_best_score"}
            -> "scoring_final"
      [] pc \in {"rg_root", "rg_version", "rg_insert", "rg_verify", "rg_complete"}
            -> "persisting"
      [] pc \in {"rg_set_error", "sync_except"} -> "error"
      [] OTHER -> "none"

PhaseRank(phase) ==
    CASE phase = "validating" -> 1
      [] phase = "running" -> 2
      [] phase = "scoring_final" -> 3
      [] phase = "persisting" -> 4
      [] OTHER -> 0

(* the step of worker w in which set_complete writes status completed *)
WritesCompleted(w) ==
    /\ wpc[w] = "rg_complete" /\ wpc'[w] = "idle"
    /\ StatusOf(progress', wcfg[w]) = "completed"

(* the moves of one run between two states *)
PhaseMove(w) ==
    LET from == PhaseOf(wpc[w])
        to == PhaseOf(wpc'[w])
    IN  \/ to = from
        \/ to = "error" /\ from # "none"
        \/ from = "none" /\ to = "validating"
        \/ from = "none" /\ to = "error" /\ wpc[w] = "sync_load"
        \/ PhaseRank(from) >= 1 /\ PhaseRank(to) = PhaseRank(from) + 1
        \/ from = "persisting" /\ WritesCompleted(w)
        \/ from = "error" /\ to = "none"

(* C19: a run moves through validating, running, scoring_final, persisting *)
(* and completed in this order or to error; evaluate is called only after  *)
(* validation, the final evaluate only after the search returned, the      *)
(* version is written only after the final score, and completed only after *)
(* the read-back                                                           *)
C19_PhaseOrder ==
    [][ \A w \in Workers :
          /\ PhaseMove(w)
          /\ wl'[w].evaluation_count > wl[w].evaluation_count
                => /\ PhaseOf(wpc[w]) \in {"running", "scoring_final"}
                   /\ wl[w].optimize_called
                   /\ PhaseOf(wpc[w]) = "scoring_final" => ValidBestPrompt(wl[w].best_prompt)
          /\ (wpc[w] = "rg_insert" /\ prompts' # prompts)
                => /\ wl[w].best_score # None
                   /\ wl[w].evaluation_count >= 1
          /\ prompts' # prompts => \E v \in Workers : wpc[v] = "rg_insert" /\ wpc'[v] # "rg_insert"
          /\ (wpc'[w] = "rg_complete" /\ wpc[w] # "rg_complete") => wpc[w] = "rg_verify"
          /\ (StatusOf(progress', wcfg[w]) = "completed" /\ StatusOf(progress, wcfg[w]) # "completed")
                => \E v \in Workers : /\ wcfg[v] = wcfg[w]
                                      /\ WritesCompleted(v)
                                      /\ wl[v].new_prompt_id \in DOMAIN prompts
      ]_vars

(* a run has passed the read-back after at least one search evaluate and   *)
(* the final evaluate                                                      *)
C19_Witness ==
    /\ wpc[1] = "rg_complete"
    /\ wl[1].optimize_called
    /\ wl[1].evaluation_count = 2
    /\ wl[1].best_score = 1
    /\ wl[1].new_prompt_id \in DOMAIN prompts

(* the rows whose chat_completion call has been made and has not returned *)
InFlight == {i \in DOMAIN ev.inputs : ev.gen[i] = "calling"}

(* C20: within one evaluate batch the generation calls of two different    *)
(* rows are never in flight at the same time                               *)
C20_GenerationSequential == ev.phase = "tasks" => Cardinality(InFlight) <= 1

(***************************************************************************)
(* SpecRace: one run for each of two configs whose base prompts (ids 2    *)
(* and 1 of InitialPrompts) lie on the same version chain.                 *)
(***************************************************************************)
NumRaceConfigs == 2

RaceConfigs == 1..NumRaceConfigs

NeverStarted(c) ==
    /\ c \notin DOMAIN progress
    /\ req.cfg # c
    /\ c \notin Range(queue)
    /\ \A w \in Workers : wcfg[w] # c

RcStart(c) == NeverStarted(c) /\ StartCheck(c) /\ UNCHANGED sse

NextRace ==
    \/ \E c \in RaceConfigs : RcStart(c)
    \/ LvHandler
    \/ \E w \in Workers : LvWorker(w)

SpecRace == Init /\ [][NextRace]_vars

(* the row written by the step of worker w, if it commits *)
Commits(w) == wpc[w] = "rg_insert" /\ wpc'[w] = "rg_verify"

(* C21: the write of a run is never rejected or renumbered because the     *)
(* version it read is already taken under the root, and it changes no      *)
(* existing row                                                             *)
C21_DuplicateVersionKept ==
    [][ \A w \in Workers : Commits(w) =>
          /\ wl'[w].new_prompt_id \notin DOMAIN prompts
          /\ prompts'[wl'[w].new_prompt_id].version = wl[w].version
          /\ prompts'[wl'[w].new_prompt_id].parent = wl[w].root_prompt_id
          /\ \A p \in DOMAIN prompts : prompts'[p] = prompts[p]
      ]_vars

(* both runs are over with status completed and their two rows carry the   *)
(* same version number under the same root                                 *)
C21_Witness ==
    /\ PoolIdle
    /\ wcfg[1] # wcfg[2]
    /\ \A c \in RaceConfigs : StatusOf(progress, c) = "completed"
    /\ wl[1].new_prompt_id # wl[2].new_prompt_id
    /\ \A w \in Workers : wl[w].new_prompt_id \in DOMAIN prompts
    /\ prompts[wl[1].new_prompt_id].version = prompts[wl[2].new_prompt_id].version
    /\ prompts[wl[1].new_prompt_id].parent = prompts[wl[2].new_prompt_id].parent

(* the feedback fragment of one scorer, read off what the scorer did *)
FragmentOf(name, o) == Fragment(name, o.kind # "score", Contribution(o), o.err)

(* the fragments of row i: judges in the order of judge_configs, then     *)
(* function evals in the order of function_eval_configs                    *)
ExpectedFeedback(i) ==
    [j \in 1..NJ |-> FragmentOf(ev.judge_configs[j], ev.jout[i][j])]
      \o [f \in 1..NF |-> FragmentOf(ev.function_eval_configs[f].name, ev.fout[i][f])]

(* C22: for a row whose generation succeeded the feedback is the judges'   *)
(* fragments in configured order followed by the function scorers'         *)
(* fragments in configured order, whatever order the judge calls           *)
(* completed in                                                            *)
C22_FeedbackInDeclarationOrder ==
    \A i \in DOMAIN ev.inputs :
        (ev.gen[i] = "ok" /\ ev.res[i].done /\ NJ + NF > 0)
            => ev.res[i].feedback = ExpectedFeedback(i)

(* judges a and b of row 1 completed b first and did different things *)
C22_Witness ==
    /\ Len(ev.inputs) >= 1
    /\ ev.judge_configs = <<"a", "b">>
    /\ ev.gen[1] = "ok"
    /\ ev.res[1].done
    /\ ev.jorder[1] = <<2, 1>>
    /\ ev.jout[1][1] # ev.jout[1][2]
    /\ ev.res[1].feedback[1].name = "a"
    /\ ev.res[1].feedback[2].name = "b"

(* a candidate of the result with non-blank system-prompt text *)
Usable(candidate) == candidate.present /\ Strip(candidate.text) # <<>>

(* the result kept in the locals l has no usable candidate *)
NoUsableCandidate(l) == ~Usable(l.result_best) /\ ~Usable(l.result_candidate)

(* C23: when the result of the search has neither a best nor a current     *)
(* candidate with non-blank text, the run raises, its record ends with     *)
(* status error and it writes no prompt version                            *)
C23_NoCandidateIsFailure ==
    [][ \A w \in Workers :
          /\ (wpc[w] = "rg_optimize" /\ wpc'[w] \notin {"rg_optimize", "rg_eval_end"}
                 /\ NoUsableCandidate(wl'[w]))
                => wpc'[w] = "rg_set_error"
          /\ (wl[w].err = "no_valid_prompt" /\ wpc[w] # "idle")
                => /\ wpc'[w] \in {wpc[w], "sync_except", "idle"}
                   /\ wpc'[w] # wpc[w] => StatusOf(progress', wcfg[w]) = "error"
                   /\ wl'[w].new_prompt_id = 0
                   /\ wpc'[w] # wpc[w] => prompts' = prompts
      ]_vars

(* a run of config 2 whose result held only a blank current candidate is   *)
(* over                                                                     *)
C23_Witness ==
    \E w \in Workers :
        /\ wpc[w] = "idle"
        /\ wcfg[w] = 2
        /\ wl[w].err = "no_valid_prompt"
        /\ wl[w].result_best = NoCandidate
        /\ wl[w].result_candidate = Candidate(<<" ">>)
        /\ StatusOf(progress, 2) = "error"
        /\ wl[w].new_prompt_id = 0

(***************************************************************************)
(* SpecProgress: the progress store of gepa_progress.py with its two       *)
(* timestamps.  datetime.now is the wall clock: each call returns some     *)
(* time of 0..MaxTime.  update_progress above is this update without the   *)
(* timestamps.                                                             *)
(***************************************************************************)
NumProgressIds == 2
MaxTime == 2

ProgressIds == 1..NumProgressIds
Times == 0..MaxTime

(* the dict of lines 17-26 *)
StampedDefault(now) ==
    [k \in DOMAIN DefaultRecord \cup {"updated_at", "started_at"} |->
        IF k \in DOMAIN DefaultRecord THEN DefaultRecord[k] ELSE now]

(* update_progress that builds the record anew from the defaults *)
update_progress_replacing(store, c, kw, now, later) ==
    LET merged == [k \in DOMAIN StampedDefault(now) \cup DOMAIN kw |->
                      IF k \in DOMAIN kw THEN kw[k] ELSE StampedDefault(now)[k]]
    IN  [x \in DOMAIN store \cup {c} |->
            IF x = c THEN [merged EXCEPT !["updated_at"] = later] ELSE store[x]]

(* update_progress, lines 11-29; now and later are the two clock readings *)
update_progress_stamped(store, c, kw, now, later) ==
    LET base == IF c \in DOMAIN store THEN store[c] ELSE StampedDefault(now)
        merged == [k \in DOMAIN base \cup DOMAIN kw |->
                      IF k \in DOMAIN kw THEN kw[k] ELSE base[k]]
    IN  [x \in DOMAIN store \cup {c} |->
            IF x = c THEN [merged EXCEPT !["updated_at"] = later] ELSE store[x]]

(* keyword arguments of the calls made by the program, and none at all *)
KwArgs ==
    {[status |-> "error", message |-> <<"failed">>],
     [current_iteration |-> 1],
     [status |-> "completed", best_score |-> 1, message |-> <<"done">>, new_prompt_id |-> 3],
     [k \in {} |-> 0]}

InitProgress ==
    /\ progress = [x \in {} |-> 0]
    /\ req = ReqIdle
    /\ resp = NoResponse
    /\ starts = 0
    /\ queue = <<>>
    /\ wpc = [w \in Workers |-> "idle"]
    /\ wcfg = [w \in Workers |-> 0]
    /\ wl = [w \in Workers |-> LocalsInit]
    /\ prompts = InitialPrompts
    /\ ev = EvIdle
    /\ sp = SpIdle
    /\ pv = PvIdle
    /\ sse = SseIdle

progressFrame == <<req, resp, starts, queue, wpc, wcfg, wl, prompts, ev, sp, pv, sse>>

PgUpdate(c, kw, now, later) ==
    /\ progress' = update_progress_stamped(progress, c, kw, now, later)
    /\ UNCHANGED progressFrame

PgClear(c) ==
    /\ progress' = clear_progress(progress, c)
    /\ UNCHANGED progressFrame

NextProgress ==
    \/ \E c \in ProgressIds, kw \in KwArgs, now \in Times, later \in Times :
          PgUpdate(c, kw, now, later)
    \/ \E c \in ProgressIds : PgClear(c)

SpecProgress == InitProgress /\ [][NextProgress]_vars

(* the record update starts from: the stored one, or the defaults *)
RecordBefore(c, now) ==
    IF c \in DOMAIN progress THEN progress[c]
    ELSE [status |-> "running", current_iteration |-> 0, max_iterations |-> 0,
          current_score |-> None, best_score |-> None, message |-> <<>>,
          updated_at |-> now, started_at |-> now]

(* C24: update creates the record with the defaults if it is absent,       *)
(* changes only the named fields and updated_at of that record and leaves  *)
(* every other field and every other record as it was; clear removes only  *)
(* the record of its id                                                    *)
C24_UpdateFrame ==
    \A c \in ProgressIds :
        /\ \A kw \in KwArgs, now \in Times, later \in Times :
              LET after == update_progress_stamped(progress, c, kw, now, later)
                  before == RecordBefore(c, now)
              IN  /\ DOMAIN after = DOMAIN progress \cup {c}
                  /\ \A x \in DOMAIN progress \ {c} : after[x] = progress[x]
                  /\ DOMAIN after[c] = DOMAIN before \cup DOMAIN kw
                  /\ after[c]["updated_at"] = later
                  /\ \A k \in DOMAIN after[c] \ {"updated_at"} :
                        after[c][k] = IF k \in DOMAIN kw THEN kw[k] ELSE before[k]
        /\ LET cleared == clear_progress(progress, c)
           IN  /\ DOMAIN cleared = DOMAIN progress \ {c}
               /\ \A x \in DOMAIN cleared : cleared[x] = progress[x]

(* record 1 was created, later updated by name, and stands next to the     *)
(* record of id 2                                                          *)
C24_Witness ==
    /\ DOMAIN progress = ProgressIds
    /\ progress[1].status = "error"
    /\ progress[1].current_iteration = 1
    /\ progress[1].started_at = 0
    /\ progress[1].updated_at = 2
    /\ progress[2].status = "running"

(* C25: what the caller of get_progress holds stays as it was when         *)
(* get_progress returned, whatever another thread writes afterwards: the   *)
(* dict the generator reads at line 335 is the one it serialised at 328    *)
C25_GetReturnsSnapshot ==
    \A s \in Streams :
        sse[s].pc = "yielded" => HeldDict(sse[s]) = sse[s].last_progress[1]

(* the row committed by the run in progress is in the table *)
RunRowExists ==
    /\ pv.new_prompt_id \in DOMAIN prompts
    /\ prompts[pv.new_prompt_id].parent = pv.root_prompt_id
    /\ prompts[pv.new_prompt_id].version = pv.version

(* C26: a run that raises (and so ends in status error) leaves no new      *)
(* prompt version behind, also when it raises at the read-back after the   *)
(* write                                                                    *)
C26_FailedRunLeavesStore == pv.phase = "raised" => ~RunRowExists

(* the "best_prompt" entry of the dict returned at lines 523-528 *)
ReturnedBestPrompt == pv.best_prompt

(* C27: on a successful run the best_prompt returned by run_gepa is the    *)
(* system-prompt text stored in the new prompt version                     *)
C27_ReturnedTextIsStoredText ==
    (pv.phase = "done" /\ pv.new_prompt_id \in DOMAIN prompts)
        => prompts[pv.new_prompt_id].text = ReturnedBestPrompt

(* C28: once the record of a config has status completed or error, no      *)
(* later operation of the run that wrote it changes the status (SpecRace   *)
(* has one run per config, no second start and no explicit clear)          *)
C28_TerminalStatusStays ==
    [][ \A c \in RaceConfigs :
          StatusOf(progress, c) \in Terminal
              => StatusOf(progress', c) = StatusOf(progress, c)
      ]_vars

(* a run recorded its error in run_gepa's except clause and again in the   *)
(* handler of _run_gepa_sync                                                *)
C28_Witness ==
    \E w \in Workers :
        /\ wpc[w] = "idle"
        /\ wcfg[w] \in RaceConfigs
        /\ wl[w].err = "search_error"
        /\ StatusOf(progress, wcfg[w]) = "error"


----------------------------------------------------------------------------
(* C29: in evaluate, when a user-message column is configured and it is     *)
(* not among the available columns, or the row's value for it is missing,   *)
(* empty or blank, the row is a generation failure (score 0, empty output)  *)
(* for which no LLM call and no scorer call is made; when no user-message   *)
(* column is configured and the system prompt renders, the LLM is called.   *)
C29_BlankUserMessageFails ==
    \A i \in DOMAIN ev.inputs :
       LET row_data == ev.inputs[i].row_data
           umc == ev.user_message_column
           started == ev.candidate.present /\ ev.gen[i] # "pending"
           no_value == \/ umc \notin available_columns
                       \/ umc \notin DOMAIN row_data
                       \/ row_data[umc] = JsonNull
                       \/ Strip(row_data[umc]) = <<>>
           rendered == render_prompt(ev.candidate.text, row_data,
                                     available_columns)
       IN  /\ (started /\ umc # "" /\ no_value) =>
                 /\ ev.gen[i] = "failed"
                 /\ ev.llm[i] = NotCalled
                 /\ ev.res[i].done
                 /\ ev.res[i].score = Zero
                 /\ ev.res[i].output = <<>>
                 /\ \A j \in DOMAIN ev.judge_configs :
                       ev.jout[i][j].kind = "pending"
                 /\ ev.fout[i] = <<>>
           /\ (started /\ umc = "" /\ rendered.ok /\ Strip(rendered.val) # <<>>) =>
                 \/ ev.gen[i] = "calling"
                 \/ ev.llm[i] # NotCalled


----------------------------------------------------------------------------
(* get_root_prompt_id as a function of the prompts table: utils.py 53-112 *)

MaxChain == 102        \* rows of a linear version chain
MaxGraph == 3          \* rows of an arbitrary parent-pointer graph

PromptRow(parent) ==
    [parent |-> parent, version |-> 1, name |-> "A", umc |-> "", text |-> <<"s">>]

(* row k has parent k + 1, row n has none *)
LinearChain(n) == [k \in 1..n |-> PromptRow(IF k = n THEN NoParent ELSE k + 1)]

(* every parent assignment over MaxGraph rows; MaxGraph + 1 is a dangling id *)
ParentGraphs ==
    {[k \in 1..MaxGraph |-> PromptRow(parents[k])] :
        parents \in [1..MaxGraph -> 0..(MaxGraph + 1)]}

InitRoot ==
    /\ progress = [x \in {} |-> 0]
    /\ req = ReqIdle
    /\ resp = NoResponse
    /\ starts = 0
    /\ queue = <<>>
    /\ wpc = [w \in Workers |-> "idle"]
    /\ wcfg = [w \in Workers |-> 0]
    /\ wl = [w \in Workers |-> LocalsInit]
    /\ prompts \in ParentGraphs \cup {LinearChain(n) : n \in 1..MaxChain}
    /\ ev = EvIdle
    /\ sp = SpIdle
    /\ pv = PvIdle
    /\ sse = SseIdle

rootFrame == <<progress, req, resp, starts, queue, wpc, wcfg, wl, prompts, ev, sp, sse>>

(* one call of get_root_prompt_id(db, prompt_id) *)
RtCall(prompt_id) ==
    /\ pv = PvIdle
    /\ pv' = [phase |-> "root", prompt_id |-> prompt_id,
              root |-> get_root_prompt_id(prompts, prompt_id)]
    /\ UNCHANGED rootFrame

NextRoot == \E prompt_id \in 1..(MaxGraph + 1) : RtCall(prompt_id)

SpecRoot == InitRoot /\ [][NextRoot]_vars

(* the ancestor of id that has no parent, None when the walk from id leaves *)
(* the table or runs into a cycle                                           *)
RECURSIVE RootAncestor(_, _, _)
RootAncestor(store, id, fuel) ==
    IF id \in DOMAIN store /\ store[id].parent # NoParent /\ fuel > 0
    THEN RootAncestor(store, store[id].parent, fuel - 1)
    ELSE IF id \in DOMAIN store /\ store[id].parent = NoParent THEN id
    ELSE None

====
